---- MODULE Spec2Model ----
(***************************************************************************)
(* browser-atm-server: one execution of BrowserTestService.runTest, the    *)
(* page validator testProductPage, the image audit testImageLoading and    *)
(* AIAnalysisService.analyzeTestResults, as a state machine.  Each await   *)
(* of the JavaScript source is one step; the synchronous statements        *)
(* between two awaits belong to the step of the await that precedes them.  *)
(***************************************************************************)
EXTENDS Integers, Sequences, FiniteSets, TLC

\* ------------------------------------------------------------------ bounds
MaxPages == 2       \* longest configuration.productPages explored
MaxTime == 1        \* latest reading of the wall clock explored
MaxEvents == 1      \* page events fired per execution
MaxBurst == 2       \* page events fired per execution when event order is examined

\* ------------------------------------------------------- values and inputs
Unset == -1         \* endTime / duration not assigned (undefined)

Urls == {"u1", "u2"}

ElementKinds == {"title", "price", "addToCart", "description", "variants", "availability"}

\* What the locator can find on a page: one presence flag per element kind.
AllDoms == [ElementKinds -> BOOLEAN]

\* The sites of the pipeline runs: u1 has title, price and add-to-cart,
\* u2 has no price at all.
Fixture ==
    [u \in Urls |->
        CASE u = "u1" -> [k \in ElementKinds |-> k \in {"title", "price", "addToCart", "description", "availability"}]
          [] u = "u2" -> [k \in ElementKinds |-> k \in {"title", "addToCart", "variants"}]]

\* The image-bearing nodes each site shows to the image audit.
ImageNodes ==
    [u \in Urls |->
        CASE u = "u1" -> <<[src |-> "a.png", visible |-> TRUE]>>
          [] u = "u2" -> <<[src |-> "b.png", visible |-> FALSE], [src |-> "", visible |-> TRUE]>>]

Configs == UNION {[1..n -> Urls] : n \in 0..MaxPages}

MaxCallers == 3     \* POST /run requests in flight at once

Callers == 1..MaxCallers

VARIABLES
    pc,             \* position of the execution in runTest / its callees
    config,         \* configuration.productPages, as the sequence of urls
    site,           \* url -> what the page at that url contains
    browser,        \* BrowserTestService.browser: "null" or "launched"
    launches,       \* number of chromium.launch calls made
    contextOpen,    \* the execution's browsing context is open
    listening,      \* the three page listeners are registered
    testResult,     \* the TestResult document of the execution
    saveLog,        \* the calls of testResult.save(): snapshot and outcome
    pageIdx,        \* index of the product page the loop is at
    result,         \* testProductPage's local `result`
    imageIdx,       \* index of the url the image audit is at
    imageResults,   \* testImageLoading's local `imageResults`
    jsErrors, networkErrors, consoleWarnings,   \* the listeners' arrays
    fired,          \* every event the page has emitted, in order of emission
    openai,         \* AIAnalysisService.openai is set (API key present)
    aiResponse,     \* what the remote completion delivered
    aiError,        \* the error caught inside analyzeTestResults
    aiAnalysis,     \* runTest's local `aiAnalysis`, as a sequence of 0 or 1
    caught,         \* the error bound by runTest's catch clause
    thrown,         \* the error runTest rejected with
    now,            \* the latest reading of the wall clock
    stockText,      \* availResult.text of the availability block
    inStock,        \* result.elements.availability.inStock: "null", "true", "false"
    callers,        \* concurrent runTest calls: position and the browser each holds
    instance,       \* the launch this.browser came from (0: none), for concurrent calls
    shutdown,       \* the closeBrowser call: its position, the browser it closes, those closed
    elementConfig,  \* findElementWithMultipleStrategies: its elementConfig argument
    document,       \* ... the page it searches: closed or not, elements in DOM order
    located,        \* ... what it returned
    tried,          \* ... the strategies it has run, with their outcomes
    pageImages,     \* testImageLoading: the nodes page.$$ returned for the current url
    imgAt,          \* ... index of the node its inner loop is at
    answers,        \* what the page answered to the add-to-cart and variant blocks
    retryAttempts,  \* configuration.testSettings.retryAttempts
    attempts        \* the navigations and locate calls made so far, per configured page

vars == <<pc, config, site, browser, launches, contextOpen, listening, testResult,
          saveLog, pageIdx, result, imageIdx, imageResults, jsErrors, networkErrors,
          consoleWarnings, openai, aiResponse, aiError, aiAnalysis, caught, thrown,
          now, stockText, inStock, callers, instance, shutdown, fired, elementConfig, document,
          located, tried, pageImages, imgAt, answers, retryAttempts, attempts>>

\* groups used by UNCHANGED
stockVars == <<stockText, inStock>>
callVars == <<callers, instance, shutdown>>
locateVars == <<elementConfig, document, located, tried>>
detailVars == <<pageImages, imgAt, answers>>
retryVars == <<retryAttempts, attempts>>
fixedVars == <<config, site, openai, stockVars, callVars, locateVars, detailVars, retryAttempts>>
envVars == <<fixedVars, attempts>>
browserVars == <<browser, launches, contextOpen, listening>>
pageVars == <<pageIdx, result>>
imageVars == <<imageIdx, imageResults>>
eventVars == <<jsErrors, networkErrors, consoleWarnings, fired>>
aiVars == <<aiResponse, aiError, aiAnalysis>>
excVars == <<caught, thrown>>

\* ------------------------------------------------------------ construction
\* new TestResult({...}): status defaults to `running`, the nested
\* collections are empty, endTime, duration and aiAnalysis are not set.
NewTestResult(t) ==
    [status |-> "running",
     startTime |-> t,
     endTime |-> Unset,
     duration |-> Unset,
     results |-> [productPageTests |-> << >>,
                  imageValidation |-> << >>,
                  errorDetection |-> [jsErrors |-> << >>,
                                      networkErrors |-> << >>,
                                      consoleWarnings |-> << >>]],
     aiAnalysis |-> << >>]

\* no completion received yet
NoCompletion == [kind |-> "none", text |-> << >>]

\* line 302: inStock starts null; no availability text has been matched.
NoStock == stockText = << >> /\ inStock = "null"

\* findElementWithMultipleStrategies has returned nothing (yet)
NoResult == [strategy |-> "none", element |-> 0, text |-> << >>, selector |-> "none"]

\* findElementWithMultipleStrategies is not being called
NoLocate ==
    /\ elementConfig = [selectors |-> << >>, textPatterns |-> << >>, contentPatterns |-> << >>,
                        attributes |-> << >>]
    /\ document = [closed |-> FALSE, elements |-> << >>]
    /\ located = NoResult
    /\ tried = << >>

\* closeBrowser has not been called and no browser has been closed
NoShutdown == [pc |-> "idle", target |-> 0, closed |-> {}]

\* no other runTest call is in flight
NoCallers ==
    /\ callers = [i \in Callers |-> [pc |-> "idle", held |-> 0]]
    /\ instance = 0
    /\ shutdown = NoShutdown

\* the page has not been waited for and has not been asked about its
\* add-to-cart control or its variants
NoAnswers ==
    [idle |-> "unasked",
     cart |-> [enabled |-> "unasked", visible |-> "unasked"],
     query |-> TRUE,
     containers |-> << >>,
     locator |-> [asked |-> FALSE, found |-> FALSE, strategy |-> "", count |-> 0]]

\* no page has been navigated to and no element has been looked for
NoAttempts == [made |-> {}, repeated |-> {}, failed |-> {}]

\* testSettings.retryAttempts: the default of the schema
DefaultRetryAttempts == 3

\* the configuration leaves testSettings.retryAttempts to the schema
DefaultSettings == retryAttempts = DefaultRetryAttempts

\* The service and the locals of an execution that has built its document
\* (line 55) and done nothing else.
FreshRun ==
    /\ attempts = NoAttempts
    /\ pageImages = << >>
    /\ imgAt = 1
    /\ answers = NoAnswers
    /\ browser \in {"null", "launched"}
    /\ launches = 0
    /\ contextOpen = FALSE
    /\ listening = FALSE
    /\ now = 0
    /\ testResult = NewTestResult(0)
    /\ saveLog = << >>
    /\ pageIdx = 1
    /\ result = << >>
    /\ imageIdx = 1
    /\ imageResults = << >>
    /\ jsErrors = << >>
    /\ networkErrors = << >>
    /\ consoleWarnings = << >>
    /\ fired = << >>
    /\ openai \in BOOLEAN
    /\ aiResponse = NoCompletion
    /\ aiError = "none"
    /\ aiAnalysis = << >>
    /\ caught = "none"
    /\ thrown = "none"

\* The state all runs share once runTest has built the document (line 55).
InitCommon ==
    /\ pc = "save_create"
    /\ NoLocate
    /\ NoStock
    /\ NoCallers
    /\ DefaultSettings
    /\ FreshRun

Init ==
    /\ InitCommon
    /\ config \in Configs
    /\ site = Fixture

\* ------------------------------------------------------------------ runTest
Terminal == {"returned", "thrown"}

\* testResult.save(): the call is recorded with the document it was handed.
SaveCall(doc, ok) == [doc |-> doc, ok |-> ok]

\* CatchClause that stamps the times but forgets the status.
CatchClauseKeepsStatus(doc, t) ==
    [doc EXCEPT !.endTime = t, !.duration = t - doc.startTime]

\* CatchClause that marks the execution cancelled.
CatchClauseCancels(doc, t) ==
    [doc EXCEPT !.status = "cancelled", !.endTime = t, !.duration = t - doc.startTime]

\* The synchronous head of runTest's catch clause (lines 137-141).
CatchClause(doc, t) ==
    [doc EXCEPT !.status = "failed", !.endTime = t, !.duration = t - doc.startTime]

\* An exception e reaches the catch clause of runTest; new Date() reads a
\* clock that does not run backwards.
Raise(e) ==
    /\ caught' = e
    /\ \E t \in now..MaxTime :
        /\ now' = t
        /\ testResult' = CatchClause(testResult, t)
    /\ pc' = "save_failure"

\* RT_SaveCreate without the write: the browser is acquired first.
RT_SaveCreateSkipped ==
    /\ pc = "save_create"
    /\ pc' = "launch"
    /\ UNCHANGED <<envVars, browserVars, testResult, saveLog, pageVars, imageVars, eventVars,
                   aiVars, excVars, now>>

\* line 58: await testResult.save()
RT_SaveCreate ==
    /\ pc = "save_create"
    /\ \E ok \in BOOLEAN :
        /\ saveLog' = Append(saveLog, SaveCall(testResult, ok))
        /\ IF ok
             THEN pc' = "launch" /\ UNCHANGED <<testResult, caught, now>>
             ELSE Raise("save:create")
    /\ UNCHANGED <<envVars, browserVars, pageVars, imageVars, eventVars, aiVars, thrown>>

\* line 60 and initializeBrowser: launch only when no browser is held.
RT_InitializeBrowser ==
    /\ pc = "launch"
    /\ IF browser = "null"
         THEN \E ok \in BOOLEAN :
                IF ok
                  THEN /\ browser' = "launched"
                       /\ launches' = launches + 1
                       /\ pc' = "new_context"
                       /\ UNCHANGED <<testResult, caught, now>>
                  ELSE /\ launches' = launches + 1
                       /\ Raise("launch")
                       /\ UNCHANGED browser
         ELSE /\ pc' = "new_context"
              /\ UNCHANGED <<browser, launches, testResult, caught, now>>
    /\ UNCHANGED <<envVars, contextOpen, listening, saveLog, pageVars, imageVars, eventVars,
                   aiVars, thrown>>

\* lines 61-66: await browser.newContext({viewport})
RT_NewContext ==
    /\ pc = "new_context"
    /\ \E ok \in BOOLEAN :
        IF ok
          THEN /\ contextOpen' = TRUE
               /\ pc' = "new_page"
               /\ UNCHANGED <<testResult, caught, now>>
          ELSE /\ Raise("newContext")
               /\ UNCHANGED contextOpen
    /\ UNCHANGED <<envVars, browser, launches, listening, saveLog, pageVars, imageVars,
                   eventVars, aiVars, thrown>>

\* RT_NewPage that leaves the registration of the listeners for later.
RT_NewPageUnheard ==
    /\ pc = "new_page"
    /\ \E ok \in BOOLEAN :
        IF ok
          THEN /\ pc' = "loop"
               /\ UNCHANGED <<testResult, caught, now>>
          ELSE /\ Raise("newPage")
    /\ UNCHANGED <<envVars, browser, launches, contextOpen, listening, saveLog, pageVars,
                   imageVars, eventVars, aiVars, thrown>>

\* lines 68-101: await context.newPage(), then the three page.on(...) calls.
RT_NewPage ==
    /\ pc = "new_page"
    /\ \E ok \in BOOLEAN :
        IF ok
          THEN /\ listening' = TRUE
               /\ pc' = "loop"
               /\ UNCHANGED <<testResult, caught, now>>
          ELSE /\ Raise("newPage")
               /\ UNCHANGED listening
    /\ UNCHANGED <<envVars, browser, launches, contextOpen, saveLog, pageVars, imageVars,
                   eventVars, aiVars, thrown>>

\* RT_Push with unshift in place of push.
RT_PushFront ==
    /\ pc = "push"
    /\ testResult' = [testResult EXCEPT !.results.productPageTests = <<result>> \o @]
    /\ pageIdx' = pageIdx + 1
    /\ pc' = "loop"
    /\ UNCHANGED <<envVars, browserVars, saveLog, result, imageVars, eventVars, aiVars,
                   excVars, now>>

\* line 106: testResult.results.productPageTests.push(pageResult)
RT_Push ==
    /\ pc = "push"
    /\ testResult' = [testResult EXCEPT !.results.productPageTests = Append(@, result)]
    /\ pageIdx' = pageIdx + 1
    /\ pc' = "loop"
    /\ UNCHANGED <<envVars, browserVars, saveLog, result, imageVars, eventVars, aiVars,
                   excVars, now>>

\* RT_StartImageAudit that does not wait for the end of the product-page loop.
RT_StartImageAuditEarly ==
    /\ pc = "loop"
    /\ imageIdx' = 1
    /\ imageResults' = << >>
    /\ pc' = "images"
    /\ UNCHANGED <<envVars, browserVars, testResult, saveLog, pageVars, eventVars, aiVars,
                   excVars, now>>

\* line 110: the product-page loop is over, testImageLoading is called.
RT_StartImageAudit ==
    /\ pc = "loop"
    /\ pageIdx > Len(config)
    /\ imageIdx' = 1
    /\ imageResults' = << >>
    /\ pc' = "images"
    /\ UNCHANGED <<envVars, browserVars, testResult, saveLog, pageVars, eventVars, aiVars,
                   excVars, now>>

\* RT_CollectResults that attaches the script errors only.
RT_CollectScriptErrorsOnly ==
    /\ pc = "images"
    /\ imageIdx > Len(config)
    /\ testResult' = [testResult EXCEPT
            !.results.imageValidation = imageResults,
            !.results.errorDetection.jsErrors = jsErrors]
    /\ pc' = "close_context"
    /\ UNCHANGED <<envVars, browserVars, saveLog, pageVars, imageVars, eventVars, aiVars,
                   excVars, now>>

\* lines 111-118: imageValidation and errorDetection are assigned.
RT_CollectResults ==
    /\ pc = "images"
    /\ imageIdx > Len(config)
    /\ testResult' = [testResult EXCEPT
            !.results.imageValidation = imageResults,
            !.results.errorDetection = [jsErrors |-> jsErrors,
                                        networkErrors |-> networkErrors,
                                        consoleWarnings |-> consoleWarnings]]
    /\ pc' = "close_context"
    /\ UNCHANGED <<envVars, browserVars, saveLog, pageVars, imageVars, eventVars, aiVars,
                   excVars, now>>

\* line 120: await context.close()
RT_CloseContext ==
    /\ pc = "close_context"
    /\ \E ok \in BOOLEAN :
        IF ok
          THEN /\ contextOpen' = FALSE
               /\ pc' = "analyze"
               /\ UNCHANGED <<testResult, caught, now>>
          ELSE /\ Raise("closeContext")
               /\ UNCHANGED contextOpen
    /\ UNCHANGED <<envVars, browser, launches, listening, saveLog, pageVars, imageVars,
                   eventVars, aiVars, thrown>>

\* Completed that lets the page verdicts decide the status.
CompletedIfAllPassed(doc, analysis, t) ==
    [doc EXCEPT !.aiAnalysis = analysis,
                !.status = IF \A i \in 1..Len(doc.results.productPageTests) :
                                    doc.results.productPageTests[i].passed
                             THEN "completed" ELSE "failed",
                !.endTime = t,
                !.duration = t - doc.startTime]

\* Completed that leaves endTime and duration alone.
CompletedUntimed(doc, analysis, t) ==
    [doc EXCEPT !.aiAnalysis = analysis, !.status = "completed"]

\* lines 124-129
Completed(doc, analysis, t) ==
    [doc EXCEPT !.aiAnalysis = analysis, !.status = "completed", !.endTime = t,
                !.duration = t - doc.startTime]

\* lines 124-129: attach the analysis, mark the execution completed.
RT_Finalize ==
    /\ pc = "attach"
    /\ \E t \in now..MaxTime :
        /\ now' = t
        /\ testResult' = Completed(testResult, aiAnalysis, t)
    /\ pc' = "save_final"
    /\ UNCHANGED <<envVars, browserVars, saveLog, pageVars, imageVars, eventVars, aiVars,
                   excVars>>

\* line 131: await testResult.save(); line 134: return testResult
RT_SaveFinal ==
    /\ pc = "save_final"
    /\ \E ok \in BOOLEAN :
        /\ saveLog' = Append(saveLog, SaveCall(testResult, ok))
        /\ IF ok
             THEN pc' = "returned" /\ UNCHANGED <<testResult, caught, now>>
             ELSE Raise("save:final")
    /\ UNCHANGED <<envVars, browserVars, pageVars, imageVars, eventVars, aiVars, thrown>>

\* RT_SaveFailure that rethrows without writing the failed document.
RT_SaveFailureSilent ==
    /\ pc = "save_failure"
    /\ thrown' = caught
    /\ pc' = "thrown"
    /\ UNCHANGED <<envVars, browserVars, testResult, saveLog, pageVars, imageVars, eventVars,
                   aiVars, caught, now>>

\* lines 142-144: await testResult.save(); throw error
RT_SaveFailure ==
    /\ pc = "save_failure"
    /\ \E ok \in BOOLEAN :
        /\ saveLog' = Append(saveLog, SaveCall(testResult, ok))
        /\ thrown' = IF ok THEN caught ELSE "save:failure"
    /\ pc' = "thrown"
    /\ UNCHANGED <<envVars, browserVars, testResult, pageVars, imageVars, eventVars, aiVars,
                   caught, now>>

\* --------------------------------------------------------- testProductPage
\* lines 289-306: the result testProductPage starts from.
NewPageResult(url) ==
    [url |-> url,
     passed |-> FALSE,
     elements |-> [k \in ElementKinds |-> [present |-> FALSE]],
     errors |-> << >>]

\* findElementWithMultipleStrategies(page, <kind>Config): whether a match
\* was returned (it returns null otherwise and never rejects).
FindElement(dom, kind) == dom[kind]

\* Verdict with the strict criterion: an add-to-cart control is required.
VerdictNeedsCart(el) ==
    el["title"].present /\ el["price"].present /\ el["addToCart"].present

\* lines 537-539: the verdict.
Verdict(el) ==
    el["title"].present /\ el["price"].present
        /\ (el["addToCart"].present \/ el["variants"].present)

\* lines 551-554: the catch clause of testProductPage.
PageCatch(res, message) == [res EXCEPT !.errors = Append(@, message)]

\* the `if (xResult) { result.elements.x.present = true ... }` blocks
Mark(res, kind, found) ==
    IF found THEN [res EXCEPT !.elements[kind].present = TRUE] ELSE res

\* The call `what` (page.goto of the validator: "goto", of the image audit:
\* "audit", the locate of an element: its kind) is made for the i-th configured
\* page; ok tells whether it delivered (the page loaded, an element was found).
Attempt(log, what, i, ok) ==
    [made |-> log.made \cup {<<what, i>>},
     repeated |-> IF <<what, i>> \in log.made THEN log.repeated \cup {<<what, i>>}
                  ELSE log.repeated,
     failed |-> IF ok THEN log.failed ELSE log.failed \cup {<<what, i>>}]

TPFrame == <<fixedVars, browserVars, testResult, saveLog, pageIdx, imageVars, eventVars,
             aiVars, excVars, now>>

\* line 105 and lines 289-306: the loop calls testProductPage for the next url.
TP_Begin ==
    /\ pc = "loop"
    /\ pageIdx <= Len(config)
    /\ result' = NewPageResult(config[pageIdx])
    /\ pc' = "tp_goto"
    /\ UNCHANGED <<attempts, TPFrame>>

\* TP_Goto without the try block: a failed navigation reaches runTest.
TP_GotoPropagates ==
    /\ pc = "tp_goto"
    /\ \E ok \in BOOLEAN :
        /\ attempts' = Attempt(attempts, "goto", pageIdx, ok)
        /\ IF ok
             THEN pc' = "tp_settle" /\ UNCHANGED <<testResult, caught, now>>
             ELSE Raise("goto")
    /\ UNCHANGED <<fixedVars, browserVars, saveLog, pageVars, imageVars, eventVars, aiVars,
                   thrown>>

\* TP_Goto that navigates a second time when the first navigation fails and
\* the settings allow a retry.
TP_GotoRetries ==
    /\ pc = "tp_goto"
    /\ \E ok \in BOOLEAN :
        /\ attempts' = Attempt(attempts, "goto", pageIdx, ok)
        /\ IF ok
             THEN pc' = "tp_settle" /\ UNCHANGED result
             ELSE IF retryAttempts > 0 /\ <<"goto", pageIdx>> \notin attempts.made
                    THEN UNCHANGED <<pc, result>>
                    ELSE result' = PageCatch(result, "goto") /\ pc' = "push"
    /\ UNCHANGED TPFrame

\* lines 310-313: await page.goto(url, ...)
TP_Goto ==
    /\ pc = "tp_goto"
    /\ \E ok \in BOOLEAN :
        /\ attempts' = Attempt(attempts, "goto", pageIdx, ok)
        /\ IF ok
             THEN pc' = "tp_settle" /\ UNCHANGED result
             ELSE result' = PageCatch(result, "goto") /\ pc' = "push"
    /\ UNCHANGED TPFrame

\* TP_Settle that navigates again when the wait fails.
TP_SettleRetries ==
    /\ pc = "tp_settle"
    /\ \E ok \in BOOLEAN : pc' = IF ok THEN "tp_idle" ELSE "tp_goto"
    /\ UNCHANGED <<result, attempts, TPFrame>>

\* line 316: await page.waitForTimeout(2000)
TP_Settle ==
    /\ pc = "tp_settle"
    /\ \E ok \in BOOLEAN :
        IF ok
          THEN pc' = "tp_idle" /\ UNCHANGED result
          ELSE result' = PageCatch(result, "waitForTimeout") /\ pc' = "push"
    /\ UNCHANGED <<attempts, TPFrame>>

\* lines 319-322: waitForLoadState('networkidle').catch(() => {})
TP_Quiescence ==
    /\ pc = "tp_idle"
    /\ \E reached \in BOOLEAN : pc' = "tp_title"
    /\ UNCHANGED <<result, attempts, TPFrame>>

\* lines 343-349
TP_Title ==
    /\ pc = "tp_title"
    /\ result' = Mark(result, "title", FindElement(site[result.url], "title"))
    /\ pc' = "tp_price"
    /\ attempts' = Attempt(attempts, "title", pageIdx, FindElement(site[result.url], "title"))
    /\ UNCHANGED TPFrame

\* lines 378-384
TP_Price ==
    /\ pc = "tp_price"
    /\ result' = Mark(result, "price", FindElement(site[result.url], "price"))
    /\ pc' = "tp_cart"
    /\ attempts' = Attempt(attempts, "price", pageIdx, FindElement(site[result.url], "price"))
    /\ UNCHANGED TPFrame

\* lines 406-418
TP_AddToCart ==
    /\ pc = "tp_cart"
    /\ result' = Mark(result, "addToCart", FindElement(site[result.url], "addToCart"))
    /\ pc' = "tp_description"
    /\ attempts' = Attempt(attempts, "addToCart", pageIdx, FindElement(site[result.url], "addToCart"))
    /\ UNCHANGED TPFrame

\* lines 436-442
TP_Description ==
    /\ pc = "tp_description"
    /\ result' = Mark(result, "description", FindElement(site[result.url], "description"))
    /\ pc' = "tp_variants"
    /\ attempts' = Attempt(attempts, "description", pageIdx, FindElement(site[result.url], "description"))
    /\ UNCHANGED TPFrame

\* lines 461-497: a throw inside the variant detection is recorded in errors
\* and leaves the count at 0.
TP_Variants ==
    /\ pc = "tp_variants"
    /\ \E ok \in BOOLEAN :
        IF ok
          THEN /\ result' = Mark(result, "variants", FindElement(site[result.url], "variants"))
               /\ attempts' = Attempt(attempts, "variants", pageIdx,
                                      FindElement(site[result.url], "variants"))
          ELSE /\ result' = PageCatch(result, "Variant detection error")
               /\ UNCHANGED attempts
    /\ pc' = "tp_availability"
    /\ UNCHANGED TPFrame

\* lines 520-534
TP_Availability ==
    /\ pc = "tp_availability"
    /\ result' = Mark(result, "availability", FindElement(site[result.url], "availability"))
    /\ pc' = "tp_verdict"
    /\ attempts' = Attempt(attempts, "availability", pageIdx, FindElement(site[result.url], "availability"))
    /\ UNCHANGED TPFrame

\* lines 536-556: the verdict, then return result
TP_Verdict ==
    /\ pc = "tp_verdict"
    /\ result' = [result EXCEPT !.passed = Verdict(result.elements)]
    /\ pc' = "push"
    /\ UNCHANGED <<attempts, TPFrame>>

TestProductPage ==
    \/ TP_Begin \/ TP_Goto \/ TP_Settle \/ TP_Quiescence \/ TP_Title \/ TP_Price
    \/ TP_AddToCart \/ TP_Description \/ TP_Variants \/ TP_Availability \/ TP_Verdict

\* -------------------------------------------------------- testImageLoading
\* lines 583-611: the record of one node that has a source.
ImageRecord(url, node) ==
    [url |-> url,
     src |-> node.src,
     loaded |-> node.visible,
     status |-> IF node.visible THEN 200 ELSE 0,
     errors |-> << >>]

RECURSIVE AuditNodes(_, _)
\* lines 569-613: one record per node with a source, in enumeration order.
AuditNodes(url, nodes) ==
    IF nodes = << >> THEN << >>
    ELSE (IF Head(nodes).src # "" THEN <<ImageRecord(url, Head(nodes))>> ELSE << >>)
            \o AuditNodes(url, Tail(nodes))

\* TI_Url whose failed navigation ends the audit.
TI_UrlAborts ==
    /\ pc = "images"
    /\ imageIdx <= Len(config)
    /\ \E ok \in BOOLEAN :
        /\ attempts' = Attempt(attempts, "audit", imageIdx, ok)
        /\ imageResults' = IF ok
                             THEN imageResults \o AuditNodes(config[imageIdx], ImageNodes[config[imageIdx]])
                             ELSE imageResults
        /\ imageIdx' = IF ok THEN imageIdx + 1 ELSE Len(config) + 1
    /\ UNCHANGED <<pc, fixedVars, browserVars, testResult, saveLog, pageVars, eventVars, aiVars,
                   excVars, now>>

\* lines 562-617: one url of the audit; a failed navigation is logged only.
TI_Url ==
    /\ pc = "images"
    /\ imageIdx <= Len(config)
    /\ \E ok \in BOOLEAN :
        /\ attempts' = Attempt(attempts, "audit", imageIdx, ok)
        /\ imageResults' = IF ok
                             THEN imageResults \o AuditNodes(config[imageIdx], ImageNodes[config[imageIdx]])
                             ELSE imageResults
    /\ imageIdx' = imageIdx + 1
    /\ UNCHANGED <<pc, fixedVars, browserVars, testResult, saveLog, pageVars, eventVars, aiVars,
                   excVars, now>>

\* ---------------------------------------------------------- page listeners
EventKinds == {"pageerror", "response", "console"}

\* What the page can emit: a script error, a response that is ok or not, a
\* console message that is a warning or not.  `faulty` is what the handlers
\* test: !response.ok(), msg.type() === 'warning'.
Events ==
    {[kind |-> k, faulty |-> f] : k \in EventKinds, f \in BOOLEAN} \ {[kind |-> "pageerror", faulty |-> FALSE]}

\* context.newPage() has resolved (line 68) and the context is not closed;
\* the catch clause of runTest leaves context and page open.
PageOpen ==
    /\ contextOpen
    /\ pc \notin {"new_page"} \cup Terminal
    /\ caught # "newPage"

\* the part of runTest during which an event is emitted
Phase ==
    CASE pc = "images" -> "audit"
      [] pc = "close_context" -> "closing"
      [] pc = "save_failure" -> "failure"
      [] OTHER -> "validation"

\* lines 75-101: the handlers of page.on('pageerror' | 'response' | 'console').
\* The page emits an event while some await of runTest is pending; the
\* handler of its kind, if registered, pushes an entry when the event is
\* faulty.  An entry is identified by the position of its event in `fired`
\* (message, url and timestamp are left out).
PageEventWithin(budget) ==
    /\ PageOpen
    /\ Len(fired) < budget
    /\ \E e \in Events :
        LET id == Len(fired) + 1
            push(kind, array) == IF listening /\ e.kind = kind /\ e.faulty THEN Append(array, id) ELSE array
        IN  /\ fired' = Append(fired, [kind |-> e.kind, faulty |-> e.faulty, phase |-> Phase,
                                       heard |-> listening])
            /\ jsErrors' = push("pageerror", jsErrors)
            /\ networkErrors' = push("response", networkErrors)
            /\ consoleWarnings' = push("console", consoleWarnings)
    /\ UNCHANGED <<pc, envVars, browserVars, testResult, saveLog, pageVars, imageVars, aiVars,
                   excVars, now>>

PageEvent == PageEventWithin(MaxEvents)

PageEventBurst == PageEventWithin(MaxBurst)

\* ------------------------------------------------------ AIAnalysisService
RiskLevels == {"low", "medium", "high", "critical"}

\* ---- strings: a text is the sequence of its characters
MaxTokens == 3      \* longest response text explored, in fragments

\* the value of each decimal digit
DigitValues ==
    [c \in {"0", "1", "2", "3", "4", "5", "6", "7", "8", "9"} |->
        CASE c = "0" -> 0 [] c = "1" -> 1 [] c = "2" -> 2 [] c = "3" -> 3 [] c = "4" -> 4
          [] c = "5" -> 5 [] c = "6" -> 6 [] c = "7" -> 7 [] c = "8" -> 8 [] c = "9" -> 9]

IsDigit(c) == c \in DOMAIN DigitValues

\* the lower-case letter of each upper-case letter
LowerOf ==
    LET upper == <<"A", "B", "C", "D", "E", "F", "G", "H", "I", "J", "K", "L", "M", "N", "O", "P", "Q", "R", "S", "T", "U", "V", "W", "X", "Y", "Z">>
        lower == <<"a", "b", "c", "d", "e", "f", "g", "h", "i", "j", "k", "l", "m", "n", "o", "p", "q", "r", "s", "t", "u", "v", "w", "x", "y", "z">>
    IN  [c \in {upper[i] : i \in 1..26} |-> lower[CHOOSE i \in 1..26 : upper[i] = c]]

\* String.prototype.toLowerCase on one character
LowerChar(c) == IF c \in DOMAIN LowerOf THEN LowerOf[c] ELSE c

ToLowerCase(text) == [i \in 1..Len(text) |-> LowerChar(text[i])]

\* word occurs in text at position p
MatchAt(text, p, word) ==
    /\ p >= 1
    /\ p + Len(word) - 1 <= Len(text)
    /\ \A i \in 1..Len(word) : text[p + i - 1] = word[i]

\* the lower-case word occurs at position p of the lower-cased text
MatchAtLower(text, p, word) ==
    /\ p >= 1
    /\ p + Len(word) - 1 <= Len(text)
    /\ \A i \in 1..Len(word) : LowerChar(text[p + i - 1]) = word[i]

\* String.prototype.includes
Includes(text, word) == \E p \in 1..(Len(text) + 1) : MatchAt(text, p, word)

RECURSIVE DigitRunEnd(_, _)
\* last position of the run of digits that starts at p
DigitRunEnd(text, p) ==
    IF p < Len(text) /\ IsDigit(text[p + 1]) THEN DigitRunEnd(text, p + 1) ELSE p

RECURSIVE ParseInt(_)
\* parseInt of a sequence of digits
ParseInt(digits) ==
    IF digits = << >> THEN 0
    ELSE 10 * ParseInt(SubSeq(digits, 1, Len(digits) - 1)) + DigitValues[digits[Len(digits)]]

IsSpace(c) == c \in {" ", "\n"}

RECURSIVE Trim(_)
\* String.prototype.trim
Trim(text) ==
    IF text = << >> THEN text
    ELSE IF IsSpace(Head(text)) THEN Trim(Tail(text))
    ELSE IF IsSpace(text[Len(text)]) THEN Trim(SubSeq(text, 1, Len(text) - 1))
    ELSE text

RECURSIVE IndexOf(_, _, _)
\* first position >= p of character c in text, 0 when there is none
IndexOf(text, c, p) ==
    IF p > Len(text) THEN 0
    ELSE IF text[p] = c THEN p
    ELSE IndexOf(text, c, p + 1)

RECURSIVE SplitLines(_)
\* String.prototype.split('\n')
SplitLines(text) ==
    LET n == IndexOf(text, "\n", 1)
    IN  IF n = 0 THEN <<text>>
        ELSE <<SubSeq(text, 1, n - 1)>> \o SplitLines(SubSeq(text, n + 1, Len(text)))

RECURSIVE Concat(_)
\* the fragments of a sequence joined into one text
Concat(parts) == IF parts = << >> THEN << >> ELSE Head(parts) \o Concat(Tail(parts))

\* ---- extractScore: /(\d+)\/100|(\d+)%|score.*?(\d+)/i, leftmost match
ScoreAlt1(text, p) == IsDigit(text[p]) /\ MatchAt(text, DigitRunEnd(text, p) + 1, <<"/", "1", "0", "0">>)

ScoreAlt2(text, p) == IsDigit(text[p]) /\ MatchAt(text, DigitRunEnd(text, p) + 1, <<"%">>)

RECURSIVE FirstDigitOnLine(_, _)
\* the first digit `.*?(\d+)` reaches from d: `.` stops at a newline; 0 if none
FirstDigitOnLine(text, d) ==
    IF d > Len(text) THEN 0
    ELSE IF IsDigit(text[d]) THEN d
    ELSE IF text[d] = "\n" THEN 0
    ELSE FirstDigitOnLine(text, d + 1)

ScoreAlt3(text, p) ==
    /\ MatchAtLower(text, p, <<"s", "c", "o", "r", "e">>)
    /\ FirstDigitOnLine(text, p + 5) # 0

RECURSIVE FirstScoreMatch(_, _)
\* the leftmost position >= p where the regex matches, 0 if none
FirstScoreMatch(text, p) ==
    IF p > Len(text) THEN 0
    ELSE IF ScoreAlt1(text, p) \/ ScoreAlt2(text, p) \/ ScoreAlt3(text, p) THEN p
    ELSE FirstScoreMatch(text, p + 1)

\* lines 127-133
extractScore(text) ==
    LET p == FirstScoreMatch(text, 1)
    IN  IF p = 0 THEN 75
        ELSE LET d == IF IsDigit(text[p]) THEN p ELSE FirstDigitOnLine(text, p + 5)
             IN  ParseInt(SubSeq(text, d, DigitRunEnd(text, d)))

\* ---- extractRiskLevel: /(low|medium|high|critical)/ on the lower-cased text
RiskWords ==
    <<[word |-> <<"l", "o", "w">>, level |-> "low"],
      [word |-> <<"m", "e", "d", "i", "u", "m">>, level |-> "medium"],
      [word |-> <<"h", "i", "g", "h">>, level |-> "high"],
      [word |-> <<"c", "r", "i", "t", "i", "c", "a", "l">>, level |-> "critical"]>>

\* the alternatives that match at position p, in the order of the regex
RiskAt(text, p) == {w \in 1..4 : MatchAtLower(text, p, RiskWords[w].word)}

RECURSIVE FirstRiskMatch(_, _)
\* the leftmost position >= p where a level is named, 0 if none
FirstRiskMatch(text, p) ==
    IF p > Len(text) THEN 0
    ELSE IF RiskAt(text, p) # {} THEN p
    ELSE FirstRiskMatch(text, p + 1)

\* lines 149-158 called with the response text: a string has no
\* productPageTests, the failure rate is 0 and the answer `low`.
calculateRiskLevel(text) == "low"

\* lines 122-125
extractRiskLevel(text) ==
    LET p == FirstRiskMatch(text, 1)
    IN  IF p = 0 THEN calculateRiskLevel(text)
        ELSE RiskWords[CHOOSE w \in RiskAt(text, p) : \A v \in RiskAt(text, p) : w <= v].level

\* ---- extractRecommendations: /^\d+\.|\-|\U+2022/ on each trimmed line
StartsNumbered(line) ==
    /\ line # << >>
    /\ IsDigit(line[1])
    /\ MatchAt(line, DigitRunEnd(line, 1) + 1, <<".">>)

\* the bullet character U+2022, written here with an ASCII stand-in
Bullet == "~"

RECURSIVE FirstBullet(_, _)
\* first position >= p of a hyphen or bullet, 0 if none
FirstBullet(line, p) ==
    IF p > Len(line) THEN 0
    ELSE IF line[p] \in {"-", Bullet} THEN p
    ELSE FirstBullet(line, p + 1)

IsRecommendation(line) ==
    /\ StartsNumbered(line) \/ FirstBullet(line, 1) # 0
    /\ Len(line) > 10

\* line.replace(/^\d+\.|\-|\U+2022/, '').trim(): the leftmost match is removed
StripMarker(line) ==
    IF StartsNumbered(line)
      THEN Trim(SubSeq(line, DigitRunEnd(line, 1) + 2, Len(line)))
      ELSE LET b == FirstBullet(line, 1)
           IN  Trim(SubSeq(line, 1, b - 1) \o SubSeq(line, b + 1, Len(line)))

RECURSIVE Recommendations(_)
Recommendations(lines) ==
    IF lines = << >> THEN << >>
    ELSE LET line == Trim(Head(lines))
         IN  (IF IsRecommendation(line) THEN <<StripMarker(line)>> ELSE << >>)
                \o Recommendations(Tail(lines))

\* Array.prototype.slice(0, 3)
FirstThree(seq) == SubSeq(seq, 1, IF Len(seq) < 3 THEN Len(seq) ELSE 3)

\* lines 135-147
extractRecommendations(text) == FirstThree(Recommendations(SplitLines(text)))

RECURSIVE FirstNonBlank(_)
\* lines 108 and 115: the first line that is not blank, or the default
FirstNonBlank(lines) ==
    IF lines = << >> THEN <<"A", "n", "a", "l", "y", "s", "i", "s">>
    ELSE IF Trim(Head(lines)) # << >> THEN Head(lines)
    ELSE FirstNonBlank(Tail(lines))

\* ---- response texts
\* the pieces response texts are made of
Frag ==
    [score |-> <<"s", "c", "o", "r", "e", " ">>,
     number |-> <<"8", "5">>,
     bigNumber |-> <<"1", "5", "0">>,
     ofHundred |-> <<"/", "1", "0", "0">>,
     percent |-> <<"%">>,
     risk |-> <<"H", "i", "g", "h", " ", "r", "i", "s", "k", "\n">>,
     bullets |-> <<"-", " ", "f", "i", "x", " ", "t", "h", "e", " ", "i", "m", "a", "g", "e", "s", "\n", "2", ".", " ", "a", "d", "d", " ", "a", "l", "t", " ", "t", "e", "x", "t", "s", "\n">>,
     bullet |-> <<"1", ".", " ", "F", "i", "x", " ", "t", "h", "e", " ", "p", "r", "i", "c", "e", "\n">>,
     plain |-> <<"A", "l", "l", " ", "o", "k", "\n">>]

Fragments == {Frag[k] : k \in DOMAIN Frag}

\* every text made of at most MaxTokens fragments
ResponseTexts == {Concat(parts) : parts \in UNION {[1..n -> Fragments] : n \in 0..MaxTokens}}

TextCompletion(text) == [kind |-> "text", text |-> text]

\* What openai.chat.completions.create can resolve to: a completion with no
\* choices, one whose message content is null, or one with a text.
Completions ==
    {[kind |-> "nochoices", text |-> << >>],
     [kind |-> "nullcontent", text |-> << >>],
     TextCompletion(Frag.risk \o Frag.score \o Frag.number \o Frag.ofHundred \o <<"\n">>
                        \o Frag.bullets \o Frag.bullets),
     TextCompletion(Frag.plain)}

\* results.productPageTests.filter(t => t.passed).length
PassedCount(tests) == Cardinality({i \in 1..Len(tests) : tests[i].passed})

\* results.imageValidation.filter(i => i.loaded).length
LoadedCount(images) == Cardinality({i \in 1..Len(images) : images[i].loaded})

\* Math.round((passRate + imageSuccessRate) / 2) of generateBasicAnalysis,
\* where a rate is 100 when its total is 0; Math.round(x) = floor(x + 1/2).
BasicScore(passed, total, loaded, images) ==
    LET pn == IF total > 0 THEN passed ELSE 1
        pd == IF total > 0 THEN total ELSE 1
        ln == IF images > 0 THEN loaded ELSE 1
        ld == IF images > 0 THEN images ELSE 1
    IN  (100 * pn * ld + 100 * ln * pd + pd * ld) \div (2 * pd * ld)

\* line 171
BasicRisk(score) ==
    IF score > 80 THEN "low"
    ELSE IF score > 60 THEN "medium"
    ELSE IF score > 40 THEN "high"
    ELSE "critical"

\* lines 160-190
generateBasicAnalysis(results) ==
    LET productPagesPassed == PassedCount(results.productPageTests)
        totalProductPages == Len(results.productPageTests)
        imagesLoaded == LoadedCount(results.imageValidation)
        totalImages == Len(results.imageValidation)
        score == BasicScore(productPagesPassed, totalProductPages, imagesLoaded, totalImages)
        recommendations ==
            (IF productPagesPassed < totalProductPages
               THEN <<"Fix missing critical elements on product pages">> ELSE << >>)
            \o (IF imagesLoaded < totalImages
                  THEN <<"Resolve image loading issues">> ELSE << >>)
            \o (IF Len(results.errorDetection.jsErrors) > 0
                  THEN <<"Address JavaScript errors">> ELSE << >>)
    IN  [summary |-> "basic",
         recommendations |-> FirstThree(recommendations),
         riskLevel |-> BasicRisk(score),
         score |-> score]

\* lines 106-120
parseAIResponse(response) ==
    [summary |-> FirstNonBlank(SplitLines(response.text)),
     recommendations |-> extractRecommendations(response.text),
     riskLevel |-> extractRiskLevel(response.text),
     score |-> extractScore(response.text)]

ANFrame == <<envVars, browserVars, testResult, saveLog, pageVars, imageVars, eventVars,
             excVars, now>>

\* lines 26-28: no client, the basic analysis is returned.
AN_Basic ==
    /\ pc = "analyze"
    /\ ~openai
    /\ aiAnalysis' = <<generateBasicAnalysis(testResult.results)>>
    /\ pc' = "attach"
    /\ UNCHANGED <<aiResponse, aiError, ANFrame>>

\* lines 30-47: the prompt is built and the remote completion awaited; the
\* call rejects or resolves to one of `completions`.
Remote(completions) ==
    /\ pc = "analyze"
    /\ openai
    /\ \/ /\ aiError' = "remote"
          /\ pc' = "an_catch"
          /\ UNCHANGED aiResponse
       \/ \E c \in completions :
            /\ aiResponse' = c
            /\ pc' = "an_parse"
            /\ UNCHANGED aiError
    /\ UNCHANGED <<aiAnalysis, ANFrame>>

AN_Remote == Remote(Completions)

\* the same call when the model may answer with any of the response texts
AN_RemoteAnyText == Remote(Completions \cup {TextCompletion(t) : t \in ResponseTexts})

\* lines 49-50: completion.choices[0].message.content, parseAIResponse
AN_Parse ==
    /\ pc = "an_parse"
    /\ IF aiResponse.kind = "text"
         THEN /\ aiAnalysis' = <<parseAIResponse(aiResponse)>>
              /\ pc' = "attach"
              /\ UNCHANGED aiError
         ELSE /\ aiError' = "TypeError"
              /\ pc' = "an_catch"
              /\ UNCHANGED aiAnalysis
    /\ UNCHANGED <<aiResponse, ANFrame>>

\* AN_Catch that logs and rethrows: the error reaches runTest.
AN_CatchRethrows ==
    /\ pc = "an_catch"
    /\ Raise(aiError)
    /\ UNCHANGED <<envVars, browserVars, saveLog, pageVars, imageVars, eventVars, aiVars,
                   thrown>>

\* AN_Catch that logs and returns nothing.
AN_CatchReturnsNothing ==
    /\ pc = "an_catch"
    /\ aiAnalysis' = << >>
    /\ pc' = "attach"
    /\ UNCHANGED <<aiResponse, aiError, ANFrame>>

\* lines 52-55: the catch clause of analyzeTestResults
AN_Catch ==
    /\ pc = "an_catch"
    /\ aiAnalysis' = <<generateBasicAnalysis(testResult.results)>>
    /\ pc' = "attach"
    /\ UNCHANGED <<aiResponse, aiError, ANFrame>>

AnalyzeTestResults == AN_Basic \/ AN_Remote \/ AN_Parse \/ AN_Catch

\* ------------------------------------------------------------ specifications
RunTest ==
    \/ RT_SaveCreate \/ RT_InitializeBrowser \/ RT_NewContext \/ RT_NewPage
    \/ RT_Push \/ RT_StartImageAudit \/ RT_CollectResults \/ RT_CloseContext
    \/ RT_Finalize \/ RT_SaveFinal \/ RT_SaveFailure

Next ==
    \/ RT_SaveCreate \/ RT_InitializeBrowser \/ RT_NewContext \/ RT_NewPage
    \/ TP_Begin \/ TP_Goto \/ TP_Settle \/ TP_Quiescence \/ TP_Title \/ TP_Price
    \/ TP_AddToCart \/ TP_Description \/ TP_Variants \/ TP_Availability \/ TP_Verdict
    \/ RT_Push \/ RT_StartImageAudit \/ TI_Url \/ RT_CollectResults \/ RT_CloseContext
    \/ AN_Basic \/ AN_Remote \/ AN_Parse \/ AN_Catch
    \/ RT_Finalize \/ RT_SaveFinal \/ RT_SaveFailure
    \/ PageEvent

\* One execution of runTest over a configuration of the fixture sites.
Spec == Init /\ [][Next]_vars

\* AN_Remote over the completions with no text or a one-line text.
AN_RemoteBrief == Remote({c \in Completions : Len(c.text) <= Len(Frag.plain)})

\* The steps of the execution itself: every one of them is the settling of a
\* call runTest or one of its callees awaits.
Progress ==
    \/ RunTest \/ TestProductPage \/ TI_Url
    \/ AN_Basic \/ AN_RemoteBrief \/ AN_Parse \/ AN_Catch

\* One execution whose every awaited call settles, the page emitting no
\* event: a step of the execution that stays possible is eventually taken.
SpecLive == Init /\ [][Progress]_vars /\ WF_vars(Progress)

\* testSettings.retryAttempts as configurations set it: no retry, one, the default
RetrySettings == {0, 1, DefaultRetryAttempts}

\* One execution without an API key on a quiet page, under any of the retry
\* settings.
InitRetry ==
    /\ pc = "save_create"
    /\ NoLocate
    /\ NoStock
    /\ NoCallers
    /\ FreshRun
    /\ ~openai
    /\ retryAttempts \in RetrySettings
    /\ config \in Configs
    /\ site = Fixture

NextRetry == RunTest \/ TestProductPage \/ TI_Url \/ AN_Basic

SpecRetry == InitRetry /\ [][NextRetry]_vars

\* One execution over at most one page, without an API key, during which the
\* page emits up to MaxBurst events.
InitEvents ==
    /\ InitCommon
    /\ browser = "launched"
    /\ ~openai
    /\ config \in {c \in Configs : Len(c) <= 1}
    /\ site = Fixture

NextEvents ==
    \/ RT_SaveCreate \/ RT_InitializeBrowser \/ RT_NewContext \/ RT_NewPage
    \/ TP_Begin \/ TP_Goto \/ TP_Settle \/ TP_Quiescence \/ TP_Title \/ TP_Price
    \/ TP_AddToCart \/ TP_Description \/ TP_Variants \/ TP_Availability \/ TP_Verdict
    \/ RT_Push \/ RT_StartImageAudit \/ TI_Url \/ RT_CollectResults \/ RT_CloseContext
    \/ AN_Basic
    \/ RT_Finalize \/ RT_SaveFinal \/ RT_SaveFailure
    \/ PageEventBurst

SpecEvents == InitEvents /\ [][NextEvents]_vars

\* One call of testProductPage on a page of arbitrary content: the state is
\* the one runTest is in when its loop starts, the url shows any of the 64
\* combinations of findable elements.
InitPage ==
    /\ InitCommon
    /\ config = <<"u1">>
    /\ site \in {[u \in Urls |-> d] : d \in AllDoms}

NextPage ==
    \/ RT_SaveCreate \/ RT_InitializeBrowser \/ RT_NewContext \/ RT_NewPage
    \/ TP_Begin \/ TP_Goto \/ TP_Settle \/ TP_Quiescence \/ TP_Title \/ TP_Price
    \/ TP_AddToCart \/ TP_Description \/ TP_Variants \/ TP_Availability \/ TP_Verdict
    \/ RT_SaveFailure

SpecPage == InitPage /\ [][NextPage]_vars

\* The results testProductPage returns for a page of content dom when no
\* call throws.
PageResultOf(url, dom) ==
    LET el == [k \in ElementKinds |-> [present |-> FindElement(dom, k)]]
    IN  [url |-> url, passed |-> Verdict(el), elements |-> el, errors |-> << >>]

\* Results runTest can hand to analyzeTestResults: the fixture pages of a
\* configuration validated, the images audited or the audit navigation
\* failed, with or without a script error.
SampleResults ==
    {[productPageTests |-> [i \in 1..Len(c) |-> PageResultOf(c[i], Fixture[c[i]])],
      imageValidation |-> IF audited THEN Concat([i \in 1..Len(c) |-> AuditNodes(c[i], ImageNodes[c[i]])])
                          ELSE << >>,
      errorDetection |-> [jsErrors |-> js, networkErrors |-> << >>, consoleWarnings |-> << >>]]
        : c \in Configs, audited \in BOOLEAN, js \in {<< >>, <<1>>}}

\* One call of analyzeTestResults: runTest has closed the context (line 120)
\* and hands over the results; the completion may carry any response text.
InitParse ==
    /\ pc = "analyze"
    /\ pageImages = << >>
    /\ imgAt = 1
    /\ answers = NoAnswers
    /\ attempts = NoAttempts
    /\ DefaultSettings
    /\ NoLocate
    /\ NoStock
    /\ NoCallers
    /\ config = << >>
    /\ site = Fixture
    /\ browser = "launched"
    /\ launches = 0
    /\ contextOpen = FALSE
    /\ listening = TRUE
    /\ now = 0
    /\ \E r \in SampleResults : testResult = [NewTestResult(0) EXCEPT !.results = r]
    /\ saveLog = <<SaveCall(NewTestResult(0), TRUE)>>
    /\ pageIdx = 1
    /\ result = << >>
    /\ imageIdx = 1
    /\ imageResults = << >>
    /\ jsErrors = << >>
    /\ networkErrors = << >>
    /\ consoleWarnings = << >>
    /\ fired = << >>
    /\ openai \in BOOLEAN
    /\ aiResponse = NoCompletion
    /\ aiError = "none"
    /\ aiAnalysis = << >>
    /\ caught = "none"
    /\ thrown = "none"

\* ---- the stock flag of the availability block (lines 520-534)
MaxWords == 2       \* longest availability text explored, in fragments

\* the wordings availability texts are made of
Word ==
    [inStock |-> <<"I", "n", " ", "S", "t", "o", "c", "k">>,
     outOfStock |-> <<"O", "u", "t", " ", "o", "f", " ", "S", "t", "o", "c", "k">>,
     unavailable |-> <<"U", "n", "a", "v", "a", "i", "l", "a", "b", "l", "e">>,
     available |-> <<"A", "v", "a", "i", "l", "a", "b", "l", "e">>,
     shipsFree |-> <<"S", "h", "i", "p", "s", " ", "f", "r", "e", "e">>,
     currently |-> <<"C", "u", "r", "r", "e", "n", "t", "l", "y", " ">>,
     notFor |-> <<"n", "o", "t", " ">>,
     now |-> <<" ", "n", "o", "w">>]

StockWords == {Word[k] : k \in DOMAIN Word}

\* the texts the availability element can show
StockTexts == {Concat(parts) : parts \in UNION {[1..n -> StockWords] : n \in 1..MaxWords}}

\* lines 526-532: the if / else-if over stockText.includes
StockFlag(text) ==
    LET stock == ToLowerCase(text)
    IN  IF Includes(stock, ToLowerCase(Word.inStock)) \/ Includes(stock, ToLowerCase(Word.available))
          THEN "true"
        ELSE IF Includes(stock, ToLowerCase(Word.outOfStock)) \/ Includes(stock, ToLowerCase(Word.unavailable))
          THEN "false"
        ELSE "null"

\* lines 520-533: the availability element was located, its text is read and
\* the flag assigned.
ST_Determine ==
    /\ pc = "stock"
    /\ inStock' = StockFlag(stockText)
    /\ pc' = "stock_done"
    /\ UNCHANGED <<config, site, openai, stockText, callVars, locateVars, detailVars, retryVars, browserVars, testResult, saveLog, pageVars,
                   imageVars, eventVars, aiVars, excVars, now>>

\* testProductPage has located an availability element showing any of the
\* texts (line 520).
InitStock ==
    /\ FreshRun
    /\ DefaultSettings
    /\ NoLocate
    /\ NoCallers
    /\ pc = "stock"
    /\ inStock = "null"
    /\ browser = "launched"
    /\ ~openai
    /\ config = << >>
    /\ site = Fixture
    /\ stockText \in StockTexts

NextStock == ST_Determine

SpecStock == InitStock /\ [][NextStock]_vars

\* ---- findElementWithMultipleStrategies (lines 149-286)
MaxElems == 2       \* most elements on the page searched

\* the trimmed text content an element can have
ElementTexts == {<< >>, <<"B", "u", "y">>, <<"$", "5">>}

\* An element: what of the configuration matches it (selector s1 or s2, the
\* attribute pair a1, or nothing), its trimmed text, and its state: visible,
\* hidden, or stale (the calls on its handle throw: detached, frame navigated).
Elements ==
    {[match |-> m, state |-> "visible", text |-> t] : m \in {"none", "s1", "s2", "a1"}, t \in ElementTexts}
        \cup {[match |-> m, state |-> st, text |-> <<"B", "u", "y">>] : m \in {"none", "s1", "s2", "a1"}, st \in {"hidden", "stale"}}

\* the pages: open with up to MaxElems elements, or closed (every call throws)
Documents ==
    {[closed |-> FALSE, elements |-> els] : els \in UNION {[1..n -> Elements] : n \in 0..MaxElems}}
        \cup {[closed |-> TRUE, elements |-> << >>]}

\* content patterns: a string (case-insensitive substring) or a RegExp of a
\* literal
Pat ==
    [buy |-> [source |-> <<"b", "u", "y">>, regex |-> FALSE],
     buyRegex |-> [source |-> <<"b", "u", "y">>, regex |-> TRUE],
     dollarRegex |-> [source |-> <<"$">>, regex |-> TRUE]]

ElementConfigs ==
    {[selectors |-> ss, textPatterns |-> tp, contentPatterns |-> cp, attributes |-> at] :
        ss \in {<< >>, <<"s1">>, <<"s1", "s2">>},
        tp \in {<< >>, <<<<"b", "u", "y">>>>},
        cp \in {<< >>, <<Pat.buy>>, <<Pat.buyRegex, Pat.dollarRegex>>},
        at \in {<< >>, <<"a1">>}}

\* lines 165-170: pattern.test(content), or the case-insensitive includes
PatternTest(content, pattern) ==
    IF pattern.regex THEN Includes(content, pattern.source)
    ELSE Includes(ToLowerCase(content), ToLowerCase(pattern.source))

\* contentPatterns.some(...)
MatchesPattern(content, patterns) == \E k \in 1..Len(patterns) : PatternTest(content, patterns[k])

\* outcomes of a strategy or of a part of one
Miss == [kind |-> "miss", element |-> 0]

Raised == [kind |-> "raise", element |-> 0]

Hit(i) == [kind |-> "hit", element |-> i]

RECURSIVE ScanFromAnyContent(_, _, _, _)
\* ScanFrom without the content check.
ScanFromAnyContent(els, key, patterns, i) ==
    IF i > Len(els) THEN Miss
    ELSE IF els[i].match # key THEN ScanFromAnyContent(els, key, patterns, i + 1)
    ELSE IF els[i].state = "stale" THEN Raised
    ELSE IF els[i].state = "visible" /\ els[i].text # << >> THEN Hit(i)
    ELSE ScanFromAnyContent(els, key, patterns, i + 1)

RECURSIVE ScanFrom(_, _, _, _)
\* lines 156-182 / 209-219: the loop over the handles page.$$ returned, from
\* the i-th element of the page on.  A stale handle makes isVisible throw,
\* which ends the loop.
ScanFrom(els, key, patterns, i) ==
    IF i > Len(els) THEN Miss
    ELSE IF els[i].match # key THEN ScanFrom(els, key, patterns, i + 1)
    ELSE IF els[i].state = "stale" THEN Raised
    ELSE IF els[i].state = "visible" /\ els[i].text # << >>
                /\ (patterns = << >> \/ MatchesPattern(els[i].text, patterns))
      THEN Hit(i)
    ELSE ScanFrom(els, key, patterns, i + 1)

\* The catch clause that rethrows.
CaughtRethrown(outcome) == outcome

\* the `catch (e) { }` clauses: the strategy goes on with its next item
Caught(outcome) == IF outcome.kind = "raise" THEN Miss ELSE outcome

\* lines 154-184 / 207-221: the body of the try block for one selector
TrySelector(doc, key, patterns) ==
    IF doc.closed THEN Raised ELSE ScanFrom(doc.elements, key, patterns, 1)

RECURSIVE SelectorLoop(_, _, _, _)
\* lines 153-185 / 206-222: for (const selector of selectors) try { ... }
SelectorLoop(doc, keys, patterns, k) ==
    IF k > Len(keys) THEN Miss
    ELSE LET outcome == Caught(TrySelector(doc, keys[k], patterns))
         IN  IF outcome.kind = "miss"
               THEN SelectorLoop(doc, keys, patterns, k + 1)
               ELSE [kind |-> outcome.kind, element |-> outcome.element, selector |-> keys[k]]

\* page.getByText(pattern, {exact: false}): the attached elements whose text
\* contains the pattern, case-insensitively
ByText(doc, pattern) ==
    {i \in 1..Len(doc.elements) :
        /\ doc.elements[i].state # "stale"
        /\ Includes(ToLowerCase(doc.elements[i].text), ToLowerCase(pattern))}

\* lines 190-199: count, first(), isVisible of one text pattern
TryText(doc, pattern) ==
    IF doc.closed THEN Raised
    ELSE IF ByText(doc, pattern) = {} THEN Miss
    ELSE LET first == CHOOSE i \in ByText(doc, pattern) : \A j \in ByText(doc, pattern) : i <= j
         IN  IF doc.elements[first].state = "visible" THEN Hit(first) ELSE Miss

RECURSIVE TextLoop(_, _, _)
\* lines 188-203
TextLoop(doc, patterns, k) ==
    IF k > Len(patterns) THEN Miss
    ELSE LET outcome == Caught(TryText(doc, patterns[k]))
         IN  IF outcome.kind = "miss" THEN TextLoop(doc, patterns, k + 1) ELSE outcome

\* lines 228-269: the in-page scan of document.querySelectorAll('*')
ContentScan(doc, patterns) ==
    {i \in 1..Len(doc.elements) :
        /\ doc.elements[i].state = "visible"
        /\ doc.elements[i].text # << >>
        /\ MatchesPattern(doc.elements[i].text, patterns)}

\* lines 227-279: page.evaluate, then page.$ of the selector it built
TryContent(doc, patterns) ==
    IF doc.closed THEN Raised
    ELSE IF ContentScan(doc, patterns) = {} THEN Miss
    ELSE Hit(CHOOSE i \in ContentScan(doc, patterns) : \A j \in ContentScan(doc, patterns) : i <= j)

LocFrame == <<config, site, openai, stockVars, callVars, detailVars, retryVars, browserVars, testResult, saveLog,
              pageVars, imageVars, eventVars, aiVars, excVars, now, elementConfig, document>>

\* A strategy has run: its result is returned, or the next strategy is up; an
\* exception that left the strategy ends the call.
Conclude(name, outcome, answer, next) ==
    /\ tried' = Append(tried, [strategy |-> name, outcome |-> outcome.kind])
    /\ located' = IF outcome.kind = "hit" THEN answer ELSE located
    /\ pc' = CASE outcome.kind = "hit" -> "loc_returned"
               [] outcome.kind = "raise" -> "loc_thrown"
               [] OTHER -> next

\* LOC_Selectors that leaves the selectors aside and goes on with the texts.
LOC_SelectorsSkipped ==
    /\ pc = "loc_selectors"
    /\ pc' = "loc_text"
    /\ UNCHANGED <<located, tried, LocFrame>>

\* lines 152-185, strategy 1: the selectors, with the content check
LOC_Selectors ==
    /\ pc = "loc_selectors"
    /\ LET outcome == SelectorLoop(document, elementConfig.selectors, elementConfig.contentPatterns, 1)
       IN  Conclude("selectors", outcome,
                    [strategy |-> IF elementConfig.contentPatterns # << >> THEN "css-pattern" ELSE "css",
                     element |-> outcome.element,
                     text |-> document.elements[outcome.element].text,
                     selector |-> outcome.selector],
                    "loc_text")
    /\ UNCHANGED LocFrame

\* lines 187-203, strategy 2: the first element showing a text pattern
LOC_Text ==
    /\ pc = "loc_text"
    /\ LET outcome == TextLoop(document, elementConfig.textPatterns, 1)
       IN  Conclude("text", outcome,
                    [strategy |-> "text",
                     element |-> outcome.element,
                     text |-> document.elements[outcome.element].text,
                     selector |-> "text:pattern"],
                    "loc_attributes")
    /\ UNCHANGED LocFrame

\* lines 205-222, strategy 3: the attribute pairs
LOC_Attributes ==
    /\ pc = "loc_attributes"
    /\ LET outcome == SelectorLoop(document, elementConfig.attributes, << >>, 1)
       IN  Conclude("attribute", outcome,
                    [strategy |-> "attribute",
                     element |-> outcome.element,
                     text |-> document.elements[outcome.element].text,
                     selector |-> outcome.selector],
                    "loc_content")
    /\ UNCHANGED LocFrame

\* lines 224-285, strategy 4 when content patterns are given, and `return null`
LOC_Content ==
    /\ pc = "loc_content"
    /\ IF elementConfig.contentPatterns # << >>
         THEN LET outcome == Caught(TryContent(document, elementConfig.contentPatterns))
              IN  Conclude("content-search", outcome,
                           [strategy |-> "content-search",
                            element |-> outcome.element,
                            text |-> document.elements[outcome.element].text,
                            selector |-> "generated"],
                           "loc_returned")
         ELSE /\ pc' = "loc_returned"
              /\ UNCHANGED <<located, tried>>
    /\ UNCHANGED LocFrame

\* One call of findElementWithMultipleStrategies, with any of the element
\* configurations on any of the pages.
InitLocate ==
    /\ FreshRun
    /\ DefaultSettings
    /\ NoStock
    /\ NoCallers
    /\ pc = "loc_selectors"
    /\ browser = "launched"
    /\ ~openai
    /\ config = << >>
    /\ site = Fixture
    /\ elementConfig \in ElementConfigs
    /\ document \in Documents
    /\ located = NoResult
    /\ tried = << >>

NextLocate == LOC_Selectors \/ LOC_Text \/ LOC_Attributes \/ LOC_Content

SpecLocate == InitLocate /\ [][NextLocate]_vars

\* ---- testProductPage: the add-to-cart and the variant block in detail
MaxContainers == 2  \* most option containers page.$$ returns
MaxOptions == 2     \* most elements a container or a selector yields

\* what isEnabled() and isVisible() can do
Replies == {"true", "false", "throws"}

\* stands for `the call threw` where a count is expected
Throws == -1

\* lines 290-306, with the fields of addToCart and variants these blocks fill in
DetailedPageResult(url) ==
    [NewPageResult(url) EXCEPT
        !.elements["addToCart"] = [present |-> FALSE, clickable |-> FALSE],
        !.elements["variants"] = [present |-> FALSE, count |-> 0, strategy |-> ""]]

\* line 413: await isEnabled() && await isVisible(); isVisible is called only
\* when isEnabled resolved to true
EnabledAndVisible(enabled, visible) == IF enabled = "true" THEN visible ELSE enabled

\* Clickable whose catch clause leaves clickable at false.
ClickableOrFalse(enabled, visible) == EnabledAndVisible(enabled, visible) = "true"

\* lines 412-417: the value of the check, true when the check throws
Clickable(enabled, visible) ==
    IF EnabledAndVisible(enabled, visible) = "throws" THEN TRUE
    ELSE EnabledAndVisible(enabled, visible) = "true"

RECURSIVE CountAllOptions(_, _)
\* CountOptions without the break: the children of all containers add up.
CountAllOptions(children, k) ==
    IF k > Len(children) THEN 0
    ELSE IF children[k] = Throws THEN Throws
    ELSE IF CountAllOptions(children, k + 1) = Throws THEN Throws
    ELSE children[k] + CountAllOptions(children, k + 1)

RECURSIVE CountOptions(_, _)
\* lines 468-476: the number of interactive children of the first container
\* that has any, 0 when none has, Throws when a container.$$ throws first
CountOptions(children, k) ==
    IF k > Len(children) THEN 0
    ELSE IF children[k] = Throws THEN Throws
    ELSE IF children[k] > 0 THEN children[k]
    ELSE CountOptions(children, k + 1)

\* what page.$$ of line 467 can return: the child counts of up to MaxContainers
\* containers, Throws for one whose $$ throws
ContainerLists == UNION {[1..n -> Throws..MaxOptions] : n \in 0..MaxContainers}

DetailFrame == <<config, site, openai, stockVars, callVars, locateVars, pageImages, imgAt, retryAttempts,
                 browserVars, testResult, saveLog, pageIdx, imageVars, eventVars, aiVars,
                 excVars, now>>

\* line 105 and lines 289-306: testProductPage is called for the next url.
TPD_Begin ==
    /\ pc = "loop"
    /\ pageIdx <= Len(config)
    /\ result' = DetailedPageResult(config[pageIdx])
    /\ pc' = "tp_goto"
    /\ UNCHANGED <<answers, attempts, DetailFrame>>

\* TPD_Quiescence without the .catch: a wait that fails reaches the catch
\* clause of testProductPage.
TPD_QuiescenceFatal ==
    /\ pc = "tp_idle"
    /\ \E reached \in BOOLEAN :
        /\ answers' = [answers EXCEPT !.idle = IF reached THEN "reached" ELSE "failed"]
        /\ IF reached
             THEN pc' = "tp_title" /\ UNCHANGED result
             ELSE result' = PageCatch(result, "waitForLoadState") /\ pc' = "push"
    /\ UNCHANGED <<attempts, DetailFrame>>

\* lines 319-322: page.waitForLoadState('networkidle', {timeout: 5000}) resolves,
\* or rejects (timeout or error) into the empty handler of .catch.
TPD_Quiescence ==
    /\ pc = "tp_idle"
    /\ \E reached \in BOOLEAN :
        answers' = [answers EXCEPT !.idle = IF reached THEN "reached" ELSE "failed"]
    /\ pc' = "tp_title"
    /\ UNCHANGED <<result, attempts, DetailFrame>>

\* lines 406-418: the add-to-cart element is located and, when found, asked
\* whether it is enabled and visible.
TPD_AddToCart ==
    /\ pc = "tp_cart"
    /\ IF FindElement(site[result.url], "addToCart")
         THEN \E enabled \in Replies, visible \in Replies :
                /\ answers' = [answers EXCEPT !.cart = [enabled |-> enabled, visible |-> visible]]
                /\ result' = [result EXCEPT !.elements["addToCart"] =
                                    [present |-> TRUE, clickable |-> Clickable(enabled, visible)]]
         ELSE UNCHANGED <<answers, result>>
    /\ attempts' = Attempt(attempts, "addToCart", pageIdx, FindElement(site[result.url], "addToCart"))
    /\ pc' = "tp_description"
    /\ UNCHANGED DetailFrame

\* lines 461-497: the option containers are queried and searched for children;
\* when none has any, the locator is called and the elements of the selector
\* it matched are counted; a throw is recorded and leaves the count at 0.
TPD_Variants ==
    /\ pc = "tp_variants"
    /\ \E query \in BOOLEAN, children \in ContainerLists, matched \in Throws..MaxOptions,
          strategy \in {"css", "attribute"} :
        LET inContainers == IF query THEN CountOptions(children, 1) ELSE Throws
            consulted == inContainers = 0
            found == FindElement(site[result.url], "variants")
            variantCount == IF inContainers > 0 THEN inContainers
                            ELSE IF consulted /\ found /\ matched > 0 THEN matched
                            ELSE 0
            variantStrategy == IF inContainers > 0 THEN "container" ELSE strategy
            threw == inContainers = Throws \/ (consulted /\ found /\ matched = Throws)
            caught1 == IF threw THEN PageCatch(result, "Variant detection error") ELSE result
        IN  /\ answers' = [answers EXCEPT
                    !.query = query,
                    !.containers = IF query THEN children ELSE << >>,
                    !.locator = IF consulted /\ found
                                  THEN [asked |-> TRUE, found |-> TRUE, strategy |-> strategy,
                                        count |-> matched]
                                  ELSE [NoAnswers.locator EXCEPT !.asked = consulted]]
            /\ attempts' = IF consulted THEN Attempt(attempts, "variants", pageIdx, found)
                           ELSE attempts
            /\ result' = IF variantCount > 0
                           THEN [caught1 EXCEPT !.elements["variants"] =
                                    [present |-> TRUE, count |-> variantCount,
                                     strategy |-> variantStrategy]]
                           ELSE caught1
    /\ pc' = "tp_availability"
    /\ UNCHANGED DetailFrame

\* One call of testProductPage on a page of arbitrary content, whose
\* add-to-cart element and option containers answer in any way.
NextDetail ==
    \/ RT_SaveCreate \/ RT_InitializeBrowser \/ RT_NewContext \/ RT_NewPage
    \/ TPD_Begin \/ TP_Goto \/ TP_Settle \/ TPD_Quiescence \/ TP_Title \/ TP_Price
    \/ TPD_AddToCart \/ TP_Description \/ TPD_Variants \/ TP_Availability \/ TP_Verdict
    \/ RT_SaveFailure

SpecDetail == InitPage /\ [][NextDetail]_vars

\* ---- testImageLoading node by node (lines 562-619)
MaxImages == 2      \* most nodes page.$$ returns for one url

\* getAttribute returns null for an attribute the node does not have
Null == <<"null">>

\* the texts the image attributes and inline styles are made of
Sty ==
    [image |-> <<"b", "a", "c", "k", "g", "r", "o", "u", "n", "d", "-", "i", "m", "a", "g", "e">>,
     declaration |-> <<"b", "a", "c", "k", "g", "r", "o", "u", "n", "d", "-", "i", "m", "a", "g", "e", ":">>,
     shorthand |-> <<"b", "a", "c", "k", "g", "r", "o", "u", "n", "d", ":">>,
     url |-> <<"u", "r", "l", "(">>,
     path |-> <<"h", "t", "t", "p", "s", ":", "/", "/", "x", "/", "y", ".", "p", "n", "g">>,
     filter |-> <<";", "f", "i", "l", "t", "e", "r", ":", "b", "l", "u", "r", "(", "2", "p", "x", ")">>,
     source |-> <<"a", ".", "p", "n", "g">>,
     lazy |-> <<"b", ".", "p", "n", "g">>]

\* `v` is truthy: neither null nor the empty string
Truthy(v) == v # Null /\ v # << >>

Quote(c) == c \in {"'", "\""}

RECURSIVE QuoteFrom(_, _)
\* first position >= p of a quote character in text, Len(text) + 1 when there is none
QuoteFrom(text, p) ==
    IF p > Len(text) THEN p
    ELSE IF Quote(text[p]) THEN p
    ELSE QuoteFrom(text, p + 1)

RECURSIVE LastParen(_, _, _)
\* the last position in lo..hi that holds ")", 0 when there is none
LastParen(text, lo, hi) ==
    IF hi < lo THEN 0
    ELSE IF text[hi] = ")" THEN hi
    ELSE LastParen(text, lo, hi - 1)

RECURSIVE SkipSpaces(_, _)
\* \s* : the position after the run of white space that starts at p
SkipSpaces(text, p) == IF p <= Len(text) /\ IsSpace(text[p]) THEN SkipSpaces(text, p + 1) ELSE p

\* /background-image:\s*url\(['"]?([^'"]+)['"]?\)/ anchored at position p:
\* the group is greedy, so it is the whole run of non-quote characters when a
\* quote and ")" follow the run, else the run up to its last ")" that has at
\* least one character before it.  Null when there is no match at p.
UrlGroupAt(text, p) ==
    IF ~MatchAt(text, p, Sty.declaration) THEN Null
    ELSE LET u == SkipSpaces(text, p + Len(Sty.declaration))
         IN  IF ~MatchAt(text, u, Sty.url) THEN Null
             ELSE LET o == u + Len(Sty.url)
                      g == IF o <= Len(text) /\ Quote(text[o]) THEN o + 1 ELSE o
                      e == QuoteFrom(text, g)
                      c == LastParen(text, g + 1, e - 1)
                  IN  IF e > g /\ e < Len(text) /\ text[e + 1] = ")" THEN SubSeq(text, g, e - 1)
                      ELSE IF c # 0 THEN SubSeq(text, g, c - 1)
                      ELSE Null

RECURSIVE BackgroundUrl(_, _)
\* lines 577-580: style.match(...), leftmost match; its group 1, Null when
\* the pattern matches nowhere
BackgroundUrl(text, p) ==
    IF p > Len(text) THEN Null
    ELSE IF UrlGroupAt(text, p) # Null THEN UrlGroupAt(text, p)
    ELSE BackgroundUrl(text, p + 1)

\* lines 570-581: src || data-src, else the url of the background image
EffectiveSource(node) ==
    LET src == IF Truthy(node.src) THEN node.src ELSE node.dataSrc
    IN  IF ~Truthy(src) /\ Truthy(node.style) /\ Includes(node.style, Sty.image)
               /\ BackgroundUrl(node.style, 1) # Null
          THEN BackgroundUrl(node.style, 1)
          ELSE src

NoBox == [width |-> 0, height |-> 0]

\* A node as the audit meets it: its attributes, whether it is visible, its
\* bounding box (NoBox: boundingBox() resolves to null) and the call on it
\* that throws, if any.  `declared` is the url its style declares as background
\* image (Null: none, Unclear: the style is malformed).
Node(src, dataSrc, style, declared, visible, box, fault) ==
    [src |-> src, dataSrc |-> dataSrc, style |-> style, declared |-> declared,
     visible |-> visible, box |-> box, fault |-> fault]

\* Nodes with a plain src, in every way the audit of one can go (a throwing
\* node is taken visible and boxed, a hidden one has no box), and a node
\* without any source.
PlainNodes ==
    {n \in {Node(Sty.source, Null, Null, Null, v, b, f) :
                v \in BOOLEAN, b \in {NoBox, [width |-> 10, height |-> 5]},
                f \in {"none", "attribute", "visible", "box"}} :
        /\ n.fault # "none" => n.visible /\ n.box # NoBox
        /\ ~n.visible => n.box = NoBox}
    \cup {Node(Null, Null, Sty.filter, Null, TRUE, NoBox, "none")}

\* an inline style: a declaration, white space or none, url(, a quote or none,
\* a path or none, a quote or none, ")" or none, a further declaration or none
StyleOf(d, w, q, body, r, c, t) == d \o w \o Sty.url \o q \o body \o r \o c \o t

\* a style whose url() is not closed or whose quotes do not pair up declares
\* nothing definite
Unclear == <<"unclear">>

\* the url a style so built declares as background image: the path between
\* the parentheses, quotes apart; Null when it declares none
DeclaredBy(d, q, body, r, c) ==
    IF d # Sty.declaration THEN Null
    ELSE IF q # r \/ c = << >> THEN Unclear
    ELSE IF body = << >> THEN Null
    ELSE body

Styles ==
    {[text |-> StyleOf(d, w, q, body, r, c, t), declared |-> DeclaredBy(d, q, body, r, c)] :
        d \in {Sty.declaration, Sty.shorthand}, w \in {<< >>, <<" ">>},
        q \in {<< >>, <<"'">>, <<"\"">>}, body \in {<< >>, Sty.path},
        r \in {<< >>, <<"'">>, <<"\"">>}, c \in {<< >>, <<")">>}, t \in {<< >>, Sty.filter}}

\* visible nodes that answer every call, with any combination of src,
\* data-src and inline style
StyledNodes ==
    {Node(src, dataSrc, sty.text, sty.declared, TRUE, [width |-> 10, height |-> 5], "none") :
        src \in {Null, << >>, Sty.source}, dataSrc \in {Null, << >>, Sty.lazy},
        sty \in Styles \cup {[text |-> Null, declared |-> Null]}}

\* what page.$$ can return for a url: up to MaxImages plain nodes
ImagePages == UNION {[1..n -> PlainNodes] : n \in 0..MaxImages}

\* ... or a single styled node
StyledPages == {<<n>> : n \in StyledNodes}

\* lines 584-611: the record of node k of the url at index i, whose source is
\* src.  `at` tells the record's node: <<i, k>>.
AuditImage(url, src, node, i, k) ==
    LET seen == node.fault # "visible" /\ node.visible
        measured == seen /\ node.fault # "box"
    IN  [url |-> url,
         src |-> src,
         loaded |-> seen,
         status |-> IF seen THEN 200 ELSE 0,
         dimensions |-> IF measured THEN node.box ELSE NoBox,
         errors |-> IF node.fault = "visible" \/ (seen /\ node.fault = "box")
                      THEN <<node.fault>> ELSE << >>,
         at |-> <<i, k>>]

AuditFrame == <<config, site, openai, stockVars, callVars, locateVars, answers, retryAttempts, browserVars,
                testResult, saveLog, pageVars, eventVars, aiVars, excVars, now>>

\* lines 562-567: the next url is navigated to and settled, page.$$ returns
\* its nodes; a throw is logged (line 615) and the loop goes on.
Navigate(pages) ==
    /\ pc = "ti_goto"
    /\ imageIdx <= Len(config)
    /\ \/ \E page \in pages :
            /\ attempts' = Attempt(attempts, "audit", imageIdx, TRUE)
            /\ pageImages' = page
            /\ imgAt' = 1
            /\ pc' = "ti_node"
            /\ UNCHANGED imageIdx
       \/ /\ attempts' = Attempt(attempts, "audit", imageIdx, FALSE)
          /\ imageIdx' = imageIdx + 1
          /\ pageImages' = << >>
          /\ imgAt' = 1
          /\ UNCHANGED pc
    /\ UNCHANGED <<imageResults, AuditFrame>>

TIA_Goto == Navigate(ImagePages)

TIA_GotoStyled == Navigate(StyledPages)

\* TIA_Node with unshift in place of push.
TIA_NodeFront ==
    /\ pc = "ti_node"
    /\ imgAt <= Len(pageImages)
    /\ LET node == pageImages[imgAt]
           imageSrc == EffectiveSource(node)
       IN  IF node.fault = "attribute"
             THEN /\ imageIdx' = imageIdx + 1
                  /\ pc' = "ti_goto"
                  /\ UNCHANGED <<imageResults, imgAt>>
             ELSE /\ imageResults' =
                        IF Truthy(imageSrc)
                          THEN <<AuditImage(config[imageIdx], imageSrc, node, imageIdx, imgAt)>>
                                    \o imageResults
                          ELSE imageResults
                  /\ imgAt' = imgAt + 1
                  /\ UNCHANGED <<imageIdx, pc>>
    /\ UNCHANGED <<pageImages, attempts, AuditFrame>>

\* lines 569-613: one turn of the inner loop.  The attributes are read outside
\* the inner try: a throw there leaves the loop for the catch of line 614.
TIA_Node ==
    /\ pc = "ti_node"
    /\ imgAt <= Len(pageImages)
    /\ LET node == pageImages[imgAt]
           imageSrc == EffectiveSource(node)
       IN  IF node.fault = "attribute"
             THEN /\ imageIdx' = imageIdx + 1
                  /\ pc' = "ti_goto"
                  /\ UNCHANGED <<imageResults, imgAt>>
             ELSE /\ imageResults' =
                        IF Truthy(imageSrc)
                          THEN Append(imageResults,
                                      AuditImage(config[imageIdx], imageSrc, node, imageIdx, imgAt))
                          ELSE imageResults
                  /\ imgAt' = imgAt + 1
                  /\ UNCHANGED <<imageIdx, pc>>
    /\ UNCHANGED <<pageImages, attempts, AuditFrame>>

\* line 613: the nodes of the url are done, the outer loop takes the next url.
TIA_NextUrl ==
    /\ pc = "ti_node"
    /\ imgAt > Len(pageImages)
    /\ imageIdx' = imageIdx + 1
    /\ pc' = "ti_goto"
    /\ UNCHANGED <<pageImages, imgAt, imageResults, attempts, AuditFrame>>

\* line 619: return imageResults
TIA_Return ==
    /\ pc = "ti_goto"
    /\ imageIdx > Len(config)
    /\ pc' = "ti_returned"
    /\ UNCHANGED <<pageImages, imgAt, imageIdx, imageResults, attempts, AuditFrame>>

\* One call of testImageLoading over the urls of a configuration, each url
\* showing any page of plain nodes.
InitImages ==
    /\ FreshRun
    /\ DefaultSettings
    /\ NoLocate
    /\ NoStock
    /\ NoCallers
    /\ pc = "ti_goto"
    /\ browser = "launched"
    /\ ~openai
    /\ config \in Configs
    /\ site = Fixture

NextImages == TIA_Goto \/ TIA_Node \/ TIA_NextUrl \/ TIA_Return

SpecImages == InitImages /\ [][NextImages]_vars

\* One call of testImageLoading over one url that shows a single styled node.
InitSource ==
    /\ InitImages
    /\ config = <<"u1">>

NextSource == TIA_GotoStyled \/ TIA_Node \/ TIA_NextUrl \/ TIA_Return

SpecSource == InitSource /\ [][NextSource]_vars

\* ---- concurrent runTest calls on the one BrowserTestService (routes/tests.js
\* line 77 starts runTest without awaiting it)
BRFrame == <<pc, config, site, openai, stockVars, locateVars, detailVars, retryVars, contextOpen, listening, testResult, saveLog,
             pageVars, imageVars, eventVars, aiVars, excVars, now>>

\* what the runTest calls leave alone
RunFrame == <<shutdown, BRFrame>>

\* lines 57-60 and 19-20: the first save resolves and initializeBrowser is
\* entered; `!this.browser` is tested and chromium.launch called in the same
\* turn, the launch is then awaited.
BR_Enter(i) ==
    /\ callers[i].pc = "save"
    /\ \E ok \in BOOLEAN :
        IF ~ok
          THEN /\ callers' = [callers EXCEPT ![i].pc = "failed"]
               /\ UNCHANGED launches
        ELSE IF browser = "null"
          THEN /\ callers' = [callers EXCEPT ![i].pc = "launching"]
               /\ launches' = launches + 1
        ELSE /\ callers' = [callers EXCEPT ![i].pc = "have", ![i].held = instance]
             /\ UNCHANGED launches
    /\ UNCHANGED <<browser, instance, RunFrame>>

\* lines 20-25: the launch settles; on success this.browser is assigned and
\* returned to the caller.
BR_Launched(i) ==
    /\ callers[i].pc = "launching"
    /\ \E ok \in BOOLEAN :
        IF ok
          THEN /\ browser' = "launched"
               /\ instance' = i
               /\ callers' = [callers EXCEPT ![i].pc = "have", ![i].held = i]
          ELSE /\ callers' = [callers EXCEPT ![i].pc = "failed"]
               /\ UNCHANGED <<browser, instance>>
    /\ UNCHANGED <<launches, RunFrame>>

\* lines 61-66: the caller opens its context on the browser it was given; a
\* browser that has been closed opens none.
BR_NewContext(i) ==
    /\ callers[i].pc = "have"
    /\ \E ok \in BOOLEAN :
        /\ ok => callers[i].held \notin shutdown.closed
        /\ callers' = [callers EXCEPT ![i].pc = IF ok THEN "context" ELSE "failed"]
    /\ UNCHANGED <<browser, instance, launches, RunFrame>>

\* lines 68-120: the page is opened, the pages validated and the images
\* audited, then context.close() is awaited; any of it may throw.
BR_CloseContext(i) ==
    /\ callers[i].pc = "context"
    /\ \E ok \in BOOLEAN :
        callers' = [callers EXCEPT ![i].pc = IF ok THEN "closed" ELSE "failed"]
    /\ UNCHANGED <<browser, instance, launches, RunFrame>>

\* lines 29-30: closeBrowser tests this.browser and, when it is set, calls
\* browser.close() and awaits it; when it is null the method returns.
CB_Close ==
    /\ shutdown.pc = "idle"
    /\ shutdown' = IF browser = "null"
                     THEN [shutdown EXCEPT !.pc = "done"]
                     ELSE [shutdown EXCEPT !.pc = "closing", !.target = instance]
    /\ UNCHANGED <<browser, instance, launches, callers, BRFrame>>

\* lines 30-31: browser.close() settles; once it has resolved the process is
\* gone and this.browser is set to null, whatever it refers to by then.
CB_Closed ==
    /\ shutdown.pc = "closing"
    /\ \E ok \in BOOLEAN :
        IF ok
          THEN /\ shutdown' = [shutdown EXCEPT !.pc = "done", !.closed = @ \cup {shutdown.target}]
               /\ browser' = "null"
               /\ instance' = 0
          ELSE /\ shutdown' = [shutdown EXCEPT !.pc = "done"]
               /\ UNCHANGED <<browser, instance>>
    /\ UNCHANGED <<launches, callers, BRFrame>>

\* the browser processes started so far
Processes == {i \in Callers : callers[i].held = i}

\* The service after construction (line 15: browser = null) with 1 to
\* MaxCallers POST /run requests accepted.
InitBrowser ==
    /\ FreshRun
    /\ DefaultSettings
    /\ NoLocate
    /\ NoStock
    /\ pc = "concurrent"
    /\ browser = "null"
    /\ ~openai
    /\ config = << >>
    /\ site = Fixture
    /\ instance = 0
    /\ shutdown = NoShutdown
    /\ \E n \in Callers :
        callers = [i \in Callers |-> [pc |-> IF i <= n THEN "save" ELSE "idle", held |-> 0]]

NextBrowser == \E i \in Callers : BR_Enter(i) \/ BR_Launched(i) \/ BR_NewContext(i)

SpecBrowser == InitBrowser /\ [][NextBrowser]_vars

\* The same requests, each followed to the end of its browser phase, while
\* closeBrowser is called once on the service.
NextShutdown ==
    \/ \E i \in Callers : BR_Enter(i) \/ BR_Launched(i) \/ BR_NewContext(i) \/ BR_CloseContext(i)
    \/ CB_Close
    \/ CB_Closed

SpecShutdown == InitBrowser /\ [][NextShutdown]_vars

NextParse == AN_Basic \/ AN_RemoteAnyText \/ AN_Parse \/ AN_Catch

SpecParse == InitParse /\ [][NextParse]_vars

\* ------------------------------------------------------------- properties
PageTests == testResult.results.productPageTests

TerminalStatus == {"completed", "failed"}

\* the calls of save() that succeeded
Stored == {i \in 1..Len(saveLog) : saveLog[i].ok}

EmptyResults == NewTestResult(0).results

\* the errors that can arise inside analyzeTestResults
AnalysisErrors == {"remote", "TypeError"}

\* C1: once the status is `completed` or `failed` it is never assigned
\* another value (also when the finalizing save fails).
C1_StatusAssignedOnce ==
    [][testResult.status \in TerminalStatus => testResult'.status = testResult.status]_vars

\* C2: the PageResult testProductPage returns has passed = TRUE exactly when
\* title and price are present and add-to-cart or variants is present.
C2_VerdictTable ==
    pc = "push" =>
        (result.passed <=>
            /\ result.elements["title"].present
            /\ result.elements["price"].present
            /\ (result.elements["addToCart"].present \/ result.elements["variants"].present))

\* C2 witness: a page returned as passed through its variants, with no
\* add-to-cart control.
C2_Witness ==
    /\ pc = "push"
    /\ result.passed
    /\ ~result.elements["addToCart"].present
    /\ result.elements["variants"].present

\* C3: when runTest has thrown, the status is `failed`, end time and duration
\* are stamped, a write of the failed document was issued and the exception
\* that left runTest is the one its catch clause caught.
C3_FailurePath ==
    pc = "thrown" =>
        /\ testResult.status = "failed"
        /\ testResult.endTime # Unset
        /\ testResult.duration # Unset
        /\ saveLog # << >>
        /\ saveLog[Len(saveLog)].doc.status = "failed"
        /\ thrown = caught

\* C4: the document first handed to save() is `running` with empty
\* collections, and nothing is acquired or navigated before that call.
C4_FirstWrite ==
    /\ saveLog = << >> =>
            /\ pc = "save_create"
            /\ launches = 0 /\ ~contextOpen /\ ~listening
            /\ result = << >>
    /\ saveLog # << >> =>
            /\ saveLog[1].doc.status = "running"
            /\ saveLog[1].doc.results = EmptyResults
            /\ saveLog[1].doc.endTime = Unset

\* C4 witness: the first navigation is about to start and the one write made
\* so far is the `running` one.
C4_Witness ==
    /\ pc = "tp_goto"
    /\ pageIdx = 1
    /\ Len(saveLog) = 1
    /\ saveLog[1].ok
    /\ launches = 1

\* C5 (as stated): when runTest has finished, the last snapshot that was
\* stored successfully has a terminal status.
C5_StoredTerminal ==
    pc \in Terminal =>
        \A i \in Stored :
            (\A j \in Stored : j <= i) => saveLog[i].doc.status \in TerminalStatus

\* C5 (amended): when runTest has finished, the last snapshot handed to
\* save() is terminal, `completed` and stored if runTest returned, `failed`
\* if it threw; the stored status is therefore terminal whenever that last
\* call succeeded.
C5_LastWriteTerminal ==
    pc \in Terminal =>
        /\ saveLog # << >>
        /\ pc = "returned" =>
                saveLog[Len(saveLog)].ok /\ saveLog[Len(saveLog)].doc.status = "completed"
        /\ pc = "thrown" => saveLog[Len(saveLog)].doc.status = "failed"

\* C5 witness: runTest threw and its failure-path write was stored.
C5_Witness ==
    /\ pc = "thrown"
    /\ saveLog[Len(saveLog)].ok
    /\ saveLog[Len(saveLog)].doc.status = "failed"
    /\ Len(saveLog) >= 2

\* the positions inside testProductPage, up to the push of its result
Validating ==
    {"tp_goto", "tp_settle", "tp_idle", "tp_title", "tp_price", "tp_cart", "tp_description",
     "tp_variants", "tp_availability", "tp_verdict", "push"}

\* C6: results are appended one page at a time in configuration order: at
\* every moment the results are those of the first pageIdx - 1 urls, a page
\* is under validation only while its predecessors' results are all there,
\* and a completed execution has one result per configured page.
C6_InputOrder ==
    /\ Len(PageTests) = pageIdx - 1
    /\ Len(PageTests) <= Len(config)
    /\ \A i \in 1..Len(PageTests) : PageTests[i].url = config[i]
    /\ pc \in Validating => pageIdx <= Len(config) /\ result.url = config[pageIdx]
    /\ testResult.status = "completed" => Len(PageTests) = Len(config)

\* C6 witness: a completed execution over two different urls.
C6_Witness ==
    /\ pc = "returned"
    /\ testResult.status = "completed"
    /\ Len(config) = 2
    /\ config[1] # config[2]

\* a PageResult whose navigation threw
NavigationFailed(r) == \E i \in 1..Len(r.errors) : r.errors[i] = "goto"

\* not passed, no element present, at least one error
EmptyButWellFormed(r) ==
    /\ ~r.passed
    /\ \A k \in ElementKinds : ~r.elements[k].present
    /\ Len(r.errors) >= 1

\* C7: a navigation that throws gives a PageResult that is not passed, has
\* no element present and a non-empty error list; the exception never
\* reaches runTest, whose loop goes on with the next page.
C7_NavigationFailureAbsorbed ==
    /\ \A i \in 1..Len(PageTests) : NavigationFailed(PageTests[i]) => EmptyButWellFormed(PageTests[i])
    /\ pc = "push" /\ NavigationFailed(result) => EmptyButWellFormed(result)
    /\ caught # "goto"
    /\ pc = "loop" /\ Len(PageTests) < Len(config) => ENABLED TP_Begin
    /\ pageIdx > Len(config) => Len(PageTests) = Len(config)

\* C7 witness: the first navigation threw, the second page was validated and
\* passed, the execution completed.
C7_Witness ==
    /\ pc = "returned"
    /\ Len(PageTests) = 2
    /\ NavigationFailed(PageTests[1])
    /\ PageTests[2].passed

\* C8: a finished execution is `completed` exactly when no exception reached
\* runTest's catch clause, whatever the verdicts of its pages.
C8_StatusFromFaultsOnly ==
    pc \in Terminal =>
        /\ (testResult.status = "completed") <=> (caught = "none")
        /\ caught = "none" => pc = "returned" /\ Len(PageTests) = Len(config)

\* C8 witness: two pages, the second without a price: passed = [true, false],
\* two results in order, status `completed`.
C8_Witness ==
    /\ pc = "returned"
    /\ config = <<"u1", "u2">>
    /\ Len(PageTests) = 2
    /\ PageTests[1].passed /\ PageTests[1].url = "u1"
    /\ ~PageTests[2].passed /\ PageTests[2].url = "u2"
    /\ ~PageTests[2].elements["price"].present
    /\ testResult.status = "completed"

C10_AnalysisDegrades ==
    /\ pc = "an_catch" => aiError \in AnalysisErrors
    /\ pc = "attach" =>
            /\ Len(aiAnalysis) = 1
            /\ ~openai \/ aiError # "none" =>
                    /\ aiAnalysis[1].summary = "basic"
                    /\ aiAnalysis[1] = generateBasicAnalysis(testResult.results)
    /\ pc \in {"save_failure", "thrown"} /\ aiError # "none" => caught = "save:final"

\* C10 witness: the completion had no usable content, the basic analysis is
\* about to be attached.
C10_Witness ==
    /\ pc = "attach"
    /\ openai
    /\ aiError = "TypeError"
    /\ aiAnalysis = <<generateBasicAnalysis(testResult.results)>>

\* C11: every analysis analyzeTestResults returns has a risk level among
\* low, medium, high and critical, a score within 0..100 and at most 3
\* recommendations.
C11_AnalysisWithinSchema ==
    pc = "attach" =>
        /\ Len(aiAnalysis) = 1
        /\ aiAnalysis[1].riskLevel \in RiskLevels
        /\ aiAnalysis[1].score \in 0..100
        /\ Len(aiAnalysis[1].recommendations) <= 3

\* C17: the stock flag follows the matched text, case-insensitively: a text
\* with "out of stock" or "unavailable" gives false, a text with "in stock"
\* or with "available" outside "unavailable" gives true, any other text
\* leaves the flag unknown; "In Stock" gives true, "Out of Stock" and
\* "Unavailable" give false, "Ships free" gives unknown.
C17_StockTable ==
    pc = "stock_done" =>
        LET stock == ToLowerCase(stockText)
            negative == \/ Includes(stock, ToLowerCase(Word.outOfStock))
                        \/ Includes(stock, ToLowerCase(Word.unavailable))
            positive == \/ Includes(stock, ToLowerCase(Word.inStock))
                        \/ \E p \in 1..Len(stock) :
                                /\ MatchAt(stock, p, ToLowerCase(Word.available))
                                /\ ~MatchAt(stock, p - 2, ToLowerCase(Word.unavailable))
        IN  /\ negative /\ ~positive => inStock = "false"
            /\ positive /\ ~negative => inStock = "true"
            /\ ~positive /\ ~negative => inStock = "null"
            /\ stockText = Word.inStock => inStock = "true"
            /\ stockText = Word.outOfStock => inStock = "false"
            /\ stockText = Word.unavailable => inStock = "false"
            /\ stockText = Word.shipsFree => inStock = "null"

\* C20: under any interleaving of concurrent runTest calls at most one
\* browser process is launched, and every call that obtained a browser holds
\* that same instance.
C20_SingleBrowser ==
    /\ Cardinality(Processes) <= 1
    /\ \A i, j \in Callers :
        callers[i].held # 0 /\ callers[j].held # 0 => callers[i].held = callers[j].held

\* the positions at which a navigation of the page is under way or done
Navigated == Validating \cup {"images", "close_context"}

\* C18: the listeners are registered before the first navigation: whenever
\* a navigation is under way or done they are in place, and every event the
\* page emitted was delivered to them.
C18_ListenersBeforeNavigation ==
    /\ pc \in Navigated => listening
    /\ \A i \in 1..Len(fired) : fired[i].heard

\* C18 witness: the first navigation is pending and has emitted an event,
\* which the listeners received.
C18_Witness ==
    /\ pc = "tp_goto"
    /\ pageIdx = 1
    /\ Len(fired) >= 1
    /\ fired[1].heard

\* the events of a kind the execution has to report: the faulty ones emitted
\* during page validation and the image audit
Reportable(kind) ==
    {i \in 1..Len(fired) :
        fired[i].kind = kind /\ fired[i].faulty /\ fired[i].phase \in {"validation", "audit"}}

\* list holds exactly the events of ids, in arrival order
ListsInOrder(list, ids) ==
    /\ {list[i] : i \in 1..Len(list)} = ids
    /\ \A a, b \in 1..Len(list) : a < b => list[a] < list[b]

\* what the catch clause of testProductPage writes into a page result
PageFaults == {"goto", "waitForTimeout", "Variant detection error"}

\* C19: the completed result lists every script error, every response that
\* is not ok and every console warning emitted during page validation and
\* during the image audit, each list in arrival order and holding nothing
\* else; no page result's errors list holds any of these events.
C19_ExecutionWideErrors ==
    pc = "returned" =>
        /\ ListsInOrder(testResult.results.errorDetection.jsErrors, Reportable("pageerror"))
        /\ ListsInOrder(testResult.results.errorDetection.networkErrors, Reportable("response"))
        /\ ListsInOrder(testResult.results.errorDetection.consoleWarnings, Reportable("console"))
        /\ \A i \in 1..Len(PageTests) : \A j \in 1..Len(PageTests[i].errors) :
                PageTests[i].errors[j] \in PageFaults

\* C19 witness: a completed execution whose page answered with a failing
\* response during validation and another during the image audit, reported
\* in that order.
C19_Witness ==
    /\ pc = "returned"
    /\ Len(fired) = 2
    /\ fired[1].kind = "response" /\ fired[1].phase = "validation"
    /\ fired[2].kind = "response" /\ fired[2].phase = "audit"
    /\ testResult.results.errorDetection.networkErrors = <<1, 2>>

\* ---- findElementWithMultipleStrategies
StrategyOrder == <<"selectors", "text", "attribute", "content-search">>

\* the elements of the page a selector or attribute pair matches
Candidates(key) == {i \in 1..Len(document.elements) : document.elements[i].match = key}

\* element i is visible, has text and passes the content patterns
Acceptable(i, patterns) ==
    /\ document.elements[i].state = "visible"
    /\ document.elements[i].text # << >>
    /\ patterns = << >> \/ MatchesPattern(document.elements[i].text, patterns)

\* some candidate of key was examined and accepted
Accepted(key, patterns) ==
    \E i \in Candidates(key) :
        /\ Acceptable(i, patterns)
        /\ \A j \in Candidates(key) : j < i => document.elements[j].state # "stale"

SelectorAccepted ==
    \E k \in 1..Len(elementConfig.selectors) :
        Accepted(elementConfig.selectors[k], elementConfig.contentPatterns)

\* the first element showing some text pattern is visible
TextMatched ==
    \E k \in 1..Len(elementConfig.textPatterns) :
        \E i \in ByText(document, elementConfig.textPatterns[k]) :
            /\ document.elements[i].state = "visible"
            /\ \A j \in ByText(document, elementConfig.textPatterns[k]) : i <= j

AttributeAccepted ==
    \E k \in 1..Len(elementConfig.attributes) : Accepted(elementConfig.attributes[k], << >>)

\* C12: the strategies run in the order selectors, text, attribute, content
\* scan and the call returns the result of the first that succeeds: a `text`
\* result means no selector candidate was accepted, an `attribute` result
\* that in addition no text pattern matched, a `content-search` result that
\* in addition no attribute pair was accepted.
C12_StrategyOrder ==
    /\ \A k \in 1..Len(tried) :
        /\ tried[k].strategy = StrategyOrder[k]
        /\ k < Len(tried) => tried[k].outcome = "miss"
    /\ located.strategy \in {"css", "css-pattern"} => Len(tried) = 1
    /\ located.strategy = "text" => Len(tried) = 2 /\ ~SelectorAccepted
    /\ located.strategy = "attribute" => Len(tried) = 3 /\ ~SelectorAccepted /\ ~TextMatched
    /\ located.strategy = "content-search" =>
            Len(tried) = 4 /\ ~SelectorAccepted /\ ~TextMatched /\ ~AttributeAccepted
    /\ pc = "loc_returned" /\ located = NoResult =>
            ~SelectorAccepted /\ ~TextMatched /\ ~AttributeAccepted

\* C12 witness: an attribute result although selectors and text patterns
\* were given and the page has elements they match.
C12_Witness ==
    /\ pc = "loc_returned"
    /\ located.strategy = "attribute"
    /\ \E k \in 1..Len(elementConfig.selectors) : Candidates(elementConfig.selectors[k]) # {}
    /\ \E k \in 1..Len(elementConfig.textPatterns) : ByText(document, elementConfig.textPatterns[k]) # {}

\* the visible elements with text that selectors match, as pairs of the
\* selector's position and the element's position
VisibleCandidates ==
    {c \in (1..Len(elementConfig.selectors)) \X (1..Len(document.elements)) :
        /\ c[2] \in Candidates(elementConfig.selectors[c[1]])
        /\ Acceptable(c[2], << >>)}

\* C13: with selectors and neither content nor text patterns, the call
\* returns, tagged `css`, the first visible element with text, by position
\* of the selector and then by position in the page.
C13_FirstVisibleCandidate ==
    /\ pc = "loc_returned"
    /\ elementConfig.contentPatterns = << >>
    /\ elementConfig.textPatterns = << >>
    /\ VisibleCandidates # {}
    => \E c \in VisibleCandidates :
            /\ \A d \in VisibleCandidates : c[1] < d[1] \/ (c[1] = d[1] /\ c[2] <= d[2])
            /\ located.strategy = "css"
            /\ located.element = c[2]
            /\ located.selector = elementConfig.selectors[c[1]]

\* C14: with a content pattern the call never returns a `css` result, and a
\* `css-pattern` result is a selector candidate whose text matches a pattern.
C14_PatternGuard ==
    /\ elementConfig.contentPatterns # << >> => located.strategy # "css"
    /\ located.strategy = "css-pattern" =>
            /\ elementConfig.contentPatterns # << >>
            /\ located.element \in Candidates(located.selector)
            /\ located.text = document.elements[located.element].text
            /\ MatchesPattern(located.text, elementConfig.contentPatterns)

\* C14 witness: a `css-pattern` result after a visible candidate of the same
\* selector whose text matches no pattern.
C14_Witness ==
    /\ located.strategy = "css-pattern"
    /\ \E j \in Candidates(located.selector) :
        /\ j < located.element
        /\ Acceptable(j, << >>)
        /\ ~MatchesPattern(document.elements[j].text, elementConfig.contentPatterns)

\* C15: the call never raises: on a page where nothing matches, on a closed
\* page and with stale candidates it returns a result or nothing.
C15_NeverRaises ==
    /\ pc # "loc_thrown"
    /\ \A k \in 1..Len(tried) : tried[k].outcome # "raise"
    /\ pc = "loc_returned" /\ document.closed => located = NoResult
    /\ /\ pc = "loc_returned"
       /\ \A i \in 1..Len(document.elements) :
            document.elements[i].match = "none" /\ document.elements[i].state # "visible"
       => located = NoResult

\* C15 witness: all four strategies threw on a closed page and the call
\* returned nothing.
C15_Witness ==
    /\ pc = "loc_returned"
    /\ document.closed
    /\ Len(tried) = 4
    /\ located = NoResult

\* C16: a candidate whose check throws is skipped alone: when the first
\* selector's matches hold an acceptable candidate, the first such candidate
\* is returned whatever stale candidates precede it.
C16_StaleCandidateSkipped ==
    /\ pc = "loc_returned"
    /\ elementConfig.selectors # << >>
    => \A i \in Candidates(elementConfig.selectors[1]) :
            /\ Acceptable(i, elementConfig.contentPatterns)
            /\ \A j \in Candidates(elementConfig.selectors[1]) :
                    j < i => ~Acceptable(j, elementConfig.contentPatterns)
            => located.element = i /\ located.selector = elementConfig.selectors[1]

\* C21: the shared browser is never closed while an execution is in progress:
\* no execution that has acquired the browser and not yet closed its context
\* holds a browser that closeBrowser has closed.
C21_NeverClosedMidExecution ==
    \A i \in Callers :
        callers[i].pc \in {"have", "context"} => callers[i].held \notin shutdown.closed

\* C22: an execution that opened a browsing context has closed it by the time
\* runTest has finished, whether it returned (`completed`) or threw (`failed`).
C22_ContextClosedAtEnd == pc \in Terminal => ~contextOpen

\* the statuses of the documents handed to testResult.save(), in call order
SavedStatuses == [i \in 1..Len(saveLog) |-> saveLog[i].doc.status]

\* C23: an execution that returns has called persistence exactly twice, with
\* status `running` at creation and `completed` at finalization; an execution
\* that throws has made, after the writes it had already made, exactly one
\* more write, with status `failed`; until then no write carries `failed`.
C23_PersistenceCalls ==
    LET made == {<<"running">>, <<"running", "completed">>}
    IN  /\ pc = "returned" => SavedStatuses = <<"running", "completed">>
        /\ pc = "thrown" => \E w \in made : SavedStatuses = w \o <<"failed">>
        /\ pc \notin Terminal => SavedStatuses \in made \cup {<< >>}

\* the finalization write was rejected and the failure-path write followed it
C23_Witness ==
    /\ pc = "thrown"
    /\ caught = "save:final"
    /\ SavedStatuses = <<"running", "completed", "failed">>

\* C24: every started execution eventually finishes with status `completed`
\* or `failed`, provided each call it awaits returns or throws.
C24_Terminates == <>(pc \in Terminal /\ testResult.status \in TerminalStatus)

\* an execution over the longest configuration has returned `completed`
C24_Witness ==
    /\ pc = "returned"
    /\ Len(config) = MaxPages
    /\ testResult.status = "completed"

\* the statuses the core assigns: the schema default and lines 127 and 139
AssignedStatuses == {"running", "completed", "failed"}

\* C25: the execution status is never `cancelled`: the document in memory and
\* every document handed to persistence carry `running`, `completed` or
\* `failed`, at every point of runTest, testProductPage and testImageLoading.
C25_NeverCancelled ==
    /\ testResult.status \in AssignedStatuses
    /\ \A i \in 1..Len(saveLog) : saveLog[i].doc.status \in AssignedStatuses

\* the pages were validated and the images audited, then the execution failed
C25_Witness ==
    /\ pc = "thrown"
    /\ caught = "closeContext"
    /\ Len(PageTests) = MaxPages
    /\ testResult.status = "failed"

\* the record of node k of the url at index i, if there is one
RecordsAt(i, k) == {j \in 1..Len(imageResults) : imageResults[j].at = <<i, k>>}

\* C26: within one url, an error raised while an image is processed is kept in
\* that image's own record and the enumeration goes on: once the url is done,
\* every node of it that has a source has a record, which holds the error
\* raised on that node, if any.
C26_ImageErrorsStayLocal ==
    (pc = "ti_goto" /\ imageIdx > 1) =>
        \A k \in 1..Len(pageImages) :
            Truthy(EffectiveSource(pageImages[k])) =>
                \E j \in RecordsAt(imageIdx - 1, k) :
                    pageImages[k].fault # "none" => imageResults[j].errors # << >>

\* the source the node's attributes give when read in the order src, data-src,
\* declared background image
PreferredSource(node) ==
    IF Truthy(node.src) THEN node.src
    ELSE IF Truthy(node.dataSrc) THEN node.dataSrc
    ELSE node.declared

\* C27: the record of a node carries its src if it has one, else its data-src,
\* else the url its inline style declares as background image, quotes
\* stripped; a node that has none of the three has no record.
C27_EffectiveSource ==
    (Len(pageImages) = 1 /\ imgAt > 1 /\ PreferredSource(pageImages[1]) # Unclear) =>
        IF Truthy(PreferredSource(pageImages[1]))
          THEN /\ Len(imageResults) = 1
               /\ imageResults[1].src = PreferredSource(pageImages[1])
          ELSE imageResults = << >>

\* isVisible() resolved to true on the node
WasVisible(node) == node.fault # "visible" /\ node.visible

\* C28: the image records are in the input order of the urls and, within a
\* url, in the enumeration order of its nodes; a record is loaded exactly when
\* its node was visible, and only a loaded record has non-zero dimensions.
C28_RecordsInOrder ==
    /\ \A j \in 1..Len(imageResults) :
            LET r == imageResults[j]
            IN  /\ r.url = config[r.at[1]]
                /\ r.dimensions # NoBox => r.loaded
                /\ \A h \in 1..(j - 1) :
                        LET q == imageResults[h]
                        IN  q.at[1] < r.at[1] \/ (q.at[1] = r.at[1] /\ q.at[2] < r.at[2])
                /\ (pc = "ti_node" /\ r.at[1] = imageIdx) =>
                        r.loaded = WasVisible(pageImages[r.at[2]])

\* two urls audited: a hidden and a measured image on the first, in this
\* order, and an image on the second
C28_Witness ==
    /\ pc = "ti_returned"
    /\ Len(imageResults) = 3
    /\ imageResults[1].at = <<1, 1>> /\ ~imageResults[1].loaded
    /\ imageResults[2].at = <<1, 2>> /\ imageResults[2].dimensions # NoBox
    /\ imageResults[3].at = <<2, 1>>

\* the add-to-cart and the variant block of testProductPage are behind
AfterVariants == {"tp_availability", "tp_verdict", "push"}

\* the containers that have a child and come after containers without any
FirstFull(children) ==
    {k \in 1..Len(children) : children[k] > 0 /\ \A j \in 1..(k - 1) : children[j] = 0}

\* a call of the variant block threw
VariantsThrew ==
    \/ ~answers.query
    \/ \E k \in 1..Len(answers.containers) :
            answers.containers[k] = Throws /\ \A j \in 1..(k - 1) : answers.containers[j] = 0
    \/ answers.locator.asked /\ answers.locator.count = Throws

\* C29: the variant count is that of the first option container that has an
\* interactive child, with strategy `container`; the locator is consulted only
\* when no container has a child, and then the count is that of the elements
\* of the selector it matched; variants.present is count > 0; an error of the
\* detection is recorded in the errors and the remaining checks still run.
C29_VariantTiers ==
    pc \in AfterVariants =>
        LET v == result.elements["variants"]
            a == answers
        IN  /\ v.present = (v.count > 0)
            /\ \A k \in FirstFull(a.containers) :
                    v.count = a.containers[k] /\ v.strategy = "container" /\ ~a.locator.asked
            /\ a.locator.asked =>
                    /\ a.query
                    /\ \A k \in 1..Len(a.containers) : a.containers[k] = 0
                    /\ v.count = IF a.locator.count > 0 THEN a.locator.count ELSE 0
                    /\ v.present => v.strategy = a.locator.strategy
            /\ VariantsThrew =>
                    /\ ~v.present
                    /\ \E i \in 1..Len(result.errors) : result.errors[i] = "Variant detection error"
            /\ (pc = "push" /\ result.errors \in {<< >>, <<"Variant detection error">>}) =>
                    result.passed = Verdict(result.elements)

\* the second container is the first with children; its children alone count
C29_Witness ==
    /\ pc = "push"
    /\ answers.containers = <<0, 1>>
    /\ result.elements["variants"].count = 1
    /\ result.elements["variants"].strategy = "container"

\* C30: a found add-to-cart element is clickable exactly when it is enabled
\* and visible; when the check throws it is taken as clickable and the page
\* validation goes on; without an element, clickable stays false.
C30_Clickable ==
    pc \in AfterVariants \cup {"tp_description", "tp_variants"} =>
        LET c == result.elements["addToCart"]
            e == answers.cart.enabled
            v == answers.cart.visible
        IN  /\ ~c.present => ~c.clickable
            /\ c.present =>
                    CASE e = "throws" -> c.clickable
                      [] e = "false" -> ~c.clickable
                      [] e = "true" /\ v = "throws" -> c.clickable
                      [] e = "true" /\ v = "true" -> c.clickable
                      [] e = "true" /\ v = "false" -> ~c.clickable
            /\ c.present =>
                    \A i \in 1..Len(result.errors) : result.errors[i] = "Variant detection error"
            /\ (pc = "push" /\ c.present) => result.passed = Verdict(result.elements)

\* isVisible() threw on the add-to-cart element and the page still passed
C30_Witness ==
    /\ pc = "push"
    /\ answers.cart = [enabled |-> "true", visible |-> "throws"]
    /\ result.elements["addToCart"].clickable
    /\ result.errors = << >>
    /\ result.passed
\* the calls an execution makes once per configured page, whatever happens
OncePerPage == {"goto", "audit"}

\* the result of the i-th configured page: pushed, or the one being filled
PageResultAt(i) ==
    IF i <= Len(testResult.results.productPageTests)
      THEN testResult.results.productPageTests[i]
      ELSE result

\* C31: no retry, whatever testSettings.retryAttempts is: no navigation and no
\* locate is made twice for the same configured page; an execution that
\* returns has navigated to every configured page once in the validator and
\* once in the image audit; a navigation of the validator that failed is
\* recorded in the errors of the page result, which stays not passed, and an
\* element that was looked for and not found is recorded as absent.
C31_NoRetry ==
    /\ attempts.repeated = {}
    /\ \A a \in attempts.made : a[2] \in 1..Len(config)
    /\ pc = "returned" =>
            \A i \in 1..Len(config) : \A what \in OncePerPage : <<what, i>> \in attempts.made
    /\ \A a \in attempts.failed :
            /\ a[1] = "goto" =>
                    /\ PageResultAt(a[2]).errors = <<"goto">>
                    /\ ~PageResultAt(a[2]).passed
                    /\ \A k \in ElementKinds : <<k, a[2]>> \notin attempts.made
            /\ a[1] \in ElementKinds => ~PageResultAt(a[2]).elements[a[1]].present

\* an execution allowed three retries returns after the navigation to its
\* first page failed and no price was found on its second
C31_Witness ==
    /\ pc = "returned"
    /\ retryAttempts = DefaultRetryAttempts
    /\ Len(config) = 2
    /\ <<"goto", 1>> \in attempts.failed
    /\ <<"price", 2>> \in attempts.failed
    /\ <<"audit", 2>> \in attempts.failed
\* the element checks of testProductPage, in the order they run
ElementChecks == <<"tp_title", "tp_price", "tp_cart", "tp_description", "tp_variants",
                   "tp_availability", "tp_verdict">>

\* C32: a network-quiescence wait that failed is ignored: the element checks
\* still run, each on what the page shows, nothing about the wait enters the
\* errors of the page result, and the verdict is the one the elements give.
C32_QuiescenceIgnored ==
    answers.idle = "failed" =>
        /\ pc \in {ElementChecks[i] : i \in 1..Len(ElementChecks)} \cup {"push"}
        /\ \A i \in 1..Len(result.errors) : result.errors[i] = "Variant detection error"
        /\ pc = "push" =>
                /\ \A k \in ElementKinds \ {"variants"} :
                        /\ <<k, pageIdx>> \in attempts.made
                        /\ result.elements[k].present = FindElement(site[result.url], k)
                /\ result.passed = Verdict(result.elements)

\* the wait failed on a page that shows what the verdict needs: the page
\* passed without an error
C32_Witness ==
    /\ answers.idle = "failed"
    /\ pc = "push"
    /\ result.passed
    /\ result.errors = << >>
\* the phases of runTest in the order of its source; the catch clause and
\* the rejection come last, since they can follow any phase
PhaseRank(p) ==
    CASE p = "save_create" -> 1
      [] p = "launch" -> 2
      [] p = "new_context" -> 3
      [] p = "new_page" -> 4
      [] p \in Validating \cup {"loop"} -> 5
      [] p = "images" -> 6
      [] p = "close_context" -> 7
      [] p \in {"analyze", "an_parse", "an_catch"} -> 8
      [] p = "attach" -> 9
      [] p = "save_final" -> 10
      [] p = "returned" -> 11
      [] p = "save_failure" -> 12
      [] p = "thrown" -> 13

\* what each phase of runTest finds done by the phases before it
PhasesDone ==
    /\ PhaseRank(pc) \in 2..11 => Len(saveLog) >= 1 /\ saveLog[1].ok
    /\ launches > 0 => Len(saveLog) >= 1 /\ saveLog[1].ok
    /\ PhaseRank(pc) \in 3..11 => browser = "launched"
    /\ contextOpen => browser = "launched"
    /\ listening => PhaseRank(pc) >= 5
    /\ PhaseRank(pc) \in 4..7 => contextOpen
    /\ PhaseRank(pc) \in 5..11 => listening
    /\ attempts.made # {} => listening
    /\ PhaseRank(pc) \in 6..11 => Len(testResult.results.productPageTests) = Len(config)
    /\ \A a \in attempts.made :
            a[1] = "audit" => /\ Len(testResult.results.productPageTests) = Len(config)
                              /\ pageIdx > Len(config)
                              /\ PhaseRank(pc) # 5
    /\ PhaseRank(pc) \in 7..11 => /\ imageIdx > Len(config)
                                   /\ \A i \in 1..Len(config) : <<"audit", i>> \in attempts.made
                                   /\ testResult.results.imageValidation = imageResults
    /\ PhaseRank(pc) \in 1..6 => testResult.results = NewTestResult(0).results
                                     \/ (PhaseRank(pc) \in 5..6 /\
                                         [testResult.results EXCEPT !.productPageTests = << >>]
                                            = NewTestResult(0).results)
    /\ PhaseRank(pc) \in 8..11 => ~contextOpen
    /\ aiAnalysis # << >> => ~contextOpen
    /\ PhaseRank(pc) \in 9..11 => aiAnalysis # << >>
    /\ PhaseRank(pc) \in 1..9 => testResult.status = "running" /\ testResult.aiAnalysis = << >>
    /\ PhaseRank(pc) \in 10..11 => /\ testResult.status = "completed"
                                    /\ testResult.aiAnalysis = aiAnalysis
    /\ PhaseRank(pc) \in 1..10 => Len(saveLog) <= 1
    /\ pc = "returned" => /\ Len(saveLog) = 2
                          /\ saveLog[2].ok
                          /\ saveLog[2].doc = testResult

\* C33: the phases of an execution follow the order of runTest: an execution
\* never goes back to an earlier phase, every phase finds the earlier ones
\* done, no page is validated once the image audit has navigated anywhere,
\* and the analysis runs with the context closed.
C33_PhaseOrder ==
    /\ []PhasesDone
    /\ [][PhaseRank(pc') >= PhaseRank(pc)]_vars

\* an execution over two pages has returned with both pages validated and
\* audited, an event heard and the analysis attached
C33_Witness ==
    /\ pc = "returned"
    /\ Len(config) = 2
    /\ Len(testResult.results.productPageTests) = 2
    /\ testResult.results.imageValidation # << >>
    /\ testResult.results.errorDetection.jsErrors # << >>
    /\ testResult.aiAnalysis # << >>
\* endTime and duration go with the status of the document
Stamped(doc) ==
    /\ doc.status = "running" => doc.endTime = Unset /\ doc.duration = Unset
    /\ doc.status \in TerminalStatus =>
            /\ doc.endTime # Unset
            /\ doc.duration = doc.endTime - doc.startTime
            /\ doc.duration >= 0

\* the assignment of line 127 has been made
ReachedCompleted == pc \in {"save_final", "returned"} \/ caught = "save:final"

\* C34: while the status is `running`, endTime and duration are unset; once it
\* is `completed` or `failed`, both are set and duration = endTime - startTime
\* >= 0, in the document and in every snapshot handed to save(); the analysis
\* is attached only on executions that reached the `completed` assignment.
C34_TimesFollowStatus ==
    /\ testResult.status \in {"running"} \cup TerminalStatus
    /\ Stamped(testResult)
    /\ \A i \in 1..Len(saveLog) : Stamped(saveLog[i].doc)
    /\ testResult.aiAnalysis # << >> => ReachedCompleted
    /\ \A i \in 1..Len(saveLog) : saveLog[i].doc.aiAnalysis # << >> => ReachedCompleted

\* the final write of a completed execution failed: the document is `failed`,
\* carries the analysis and a duration of one tick
C34_Witness ==
    /\ pc = "thrown"
    /\ caught = "save:final"
    /\ testResult.status = "failed"
    /\ testResult.aiAnalysis # << >>
    /\ testResult.duration = 1
    /\ testResult.endTime = 1
\* C35: when the element configuration defines content patterns, the text of
\* every result findElementWithMultipleStrategies returns, whatever strategy
\* found it, matches at least one of the content patterns.
C35_ResultsMatchContent ==
    (pc = "loc_returned" /\ located # NoResult /\ elementConfig.contentPatterns # << >>)
        => MatchesPattern(located.text, elementConfig.contentPatterns)
\* the i-th url of the audit was navigated to and the navigation threw
AuditFailed(i) == <<"audit", i>> \in attempts.failed

RECURSIVE RecordsWithoutFailed(_)
\* the records of the first n configured urls when those whose navigation
\* threw are left out of the configuration
RecordsWithoutFailed(n) ==
    IF n = 0 THEN << >>
    ELSE RecordsWithoutFailed(n - 1)
            \o (IF AuditFailed(n) THEN << >> ELSE AuditNodes(config[n], ImageNodes[config[n]]))

\* C36: a url whose navigation throws in the image audit contributes no
\* record and leaves the records of the other urls as they are without it;
\* the audit goes on with the next url and the exception never reaches
\* runTest: the execution stays `running` through the audit and goes on to
\* copy the results.
C36_AuditFailureAbsorbed ==
    /\ imageResults = RecordsWithoutFailed(imageIdx - 1)
    /\ \A i \in 1..Len(config) : AuditFailed(i) => i < imageIdx
    /\ \A i \in 1..(imageIdx - 1) : <<"audit", i>> \in attempts.made
    /\ pc = "images" => testResult.status = "running" /\ caught = "none"
    /\ pc = "images" /\ imageIdx <= Len(config) => ENABLED TI_Url
    /\ pc = "images" /\ imageIdx > Len(config) => ENABLED RT_CollectResults
    /\ PhaseRank(pc) \in 7..11 => testResult.results.imageValidation = RecordsWithoutFailed(Len(config))
    /\ caught \in {"none", "save:create", "launch", "newContext", "newPage", "closeContext",
                   "save:final"}

\* the navigation to the first of two urls threw in the audit: the execution
\* completed with the records of the second url alone
C36_Witness ==
    /\ pc = "returned"
    /\ testResult.status = "completed"
    /\ Len(config) = 2
    /\ AuditFailed(1)
    /\ ~AuditFailed(2)
    /\ testResult.results.imageValidation = AuditNodes(config[2], ImageNodes[config[2]])
    /\ testResult.results.imageValidation # << >>
====
